---- MODULE Spec2Model ----
(***************************************************************************)
(* Model of the cnosdb storage read path and TSI rebuild tool.             *)
(*                                                                         *)
(*   Spec        IndexShard / IndexTSMFile (buildtsi): one shard's rebuild *)
(*               pipeline over the shard directory, run up to MaxRuns      *)
(*               times, with interruption of the process at any step.      *)
(*   SpecReader  TSMReader.Read<Type>BlockAt over mmapAccessor, concurrent *)
(*               readers against one close.                                *)
(*   SpecRP      processRetentionPolicy: the worker pool, the shared       *)
(*               cursor, the result channel and the orchestrator.          *)
(*   SpecPaths   the ten typed read paths, one after another on one input. *)
(*   SpecRun     run / processDatabase (buildtsi): the root prompt and the   *)
(*               loops over databases and retention policies.              *)
(*   SpecResponse  Response.Error on every small response.                 *)
(*   SpecWrite   WriteRequestToPoints on every small write request.        *)
(*   SpecServer  Server.Open and Server.Close, step by step.               *)
(*   SpecDB      SpecRP with the series file that processDatabase closes.  *)
(*   SpecNode    startNodeServer / joinCluster: the join requests a node   *)
(*               handles, across restarts of the server.                   *)
(***************************************************************************)
EXTENDS Integers, Sequences, FiniteSets, TLC

\* ------------------------------------------------------------------ bounds
MaxRuns == 2
MaxFiles == 2
MaxKeys == 3
MaxBatch == 2
NumReaders == 2
FileLen == 6
MaxInt64 == 63
MaxShards == 3
MaxWorkers == 2
MaxAnswer == 2
MaxDbs == 2
MaxRPs == 2
MaxResults == 3
MaxSeries == 2
MaxSamples == 3
MaxServices == 2
MaxCloses == 2
MaxRequests == 3
MaxRestarts == 1

\* ------------------------------------------------------------- IndexShard
VARIABLES
    indexPath,   \* the directory <shard>/index
    tmpPath,     \* the directory <shard>/.index
    batchSize,   \* the batchSize argument (--batch-size, not validated)
    run,         \* number of the current IndexShard run on this shard
    pc,          \* position of the current run in IndexShard
    ret,         \* return value of the current run: NoRet until it returns
    indexAtStart,\* whether <shard>/index existed when the current run started
    idxOpen,     \* tsiIndex is open (Open succeeded, no Close yet)
    deferred,    \* "defer tsiIndex.Close()" has been registered
    closes,      \* Close calls made on tsiIndex in the current run
    filesLeft,   \* tsmPaths not yet handed to IndexTSMFile
    src,         \* the key sequence being enumerated (KeyAt(0..) or cache.Keys())
    i,           \* loop index into src
    keysBatch,
    namesBatch,
    tagsBatch,
    ti,
    batches,     \* CreateSeriesListIfNotExists calls made for src, in order
    enumerated,  \* series keys the current run has enumerated so far
    steps,       \* pipeline steps of the current run, consecutive repeats merged
    prev,        \* how the previous run ended and the directories it left
    skipped,     \* TSM files the current run logged and skipped
    walResult    \* what collectWALFiles returned in the current run

\* ------------------------------------------------- TSMReader, mmapAccessor
VARIABLES
    b,           \* mmapAccessor.b: the mapped bytes of the TSM file
    tmu,         \* TSMReader.mu
    mmu,         \* mmapAccessor.mu
    accessCount, \* mmapAccessor.accessCount
    rd,          \* per caller: its position in Read<Type>BlockAt and its locals
    cl           \* the closing caller: its position in Close

\* ------------------------------------------------- processRetentionPolicy
VARIABLES
    shards,      \* the shard list built from the directory listing
    concurrency, \* o.concurrency (--concurrency, not validated)
    outcome,     \* per shard: what IndexShard returns for it
    maxi,        \* the shared cursor
    errC,        \* the result channel, capacity len(shards)
    wk,          \* per worker goroutine: its position and locals
    calls,       \* per shard: IndexShard invocations so far
    orch,        \* the orchestrator: its position, loop index, return value
    received,    \* the values the orchestrator has received, in order
    callsAtReturn \* IndexShard invocations made when the orchestrator returned

\* ------------------------------------------ the ten typed read paths
VARIABLES
    pt           \* one caller going through the typed reads one after another

\* ------------------------------------------------ buildtsi run, the server
VARIABLES
    drv,         \* run / processDatabase: position, directory cursor, history
    sf,          \* the series file processDatabase shares with the workers
    rsp,         \* Response.Error: the response and what was returned
    wr,          \* WriteRequestToPoints: the request and what was returned
    srv,         \* Server.Close: position and the order of closes
    nd           \* the node server: NewNode, Node, the requests it has handled

loopVars == <<src, i, keysBatch, namesBatch, tagsBatch, ti, batches>>
histVars == <<prev, skipped, walResult>>
isVars == <<indexPath, tmpPath, batchSize, run, pc, ret, indexAtStart, idxOpen,
            deferred, closes, filesLeft, loopVars, enumerated, steps, histVars>>
rdVars == <<b, tmu, mmu, accessCount, rd, cl>>
rpVars == <<shards, concurrency, outcome, maxi, errC, wk, calls, orch, received,
            callsAtReturn>>
xVars == <<pt, drv, sf, rsp, wr, srv, nd>>
vars == <<isVars, rdVars, rpVars, xVars>>

\* A directory of the shard: whether it exists, the series its index holds,
\* the run that created it (0: before the first run) and, for <shard>/index,
\* the steps of the run that published it.
AbsentDir == [exists |-> FALSE, series |-> {}, by |-> 0, log |-> <<>>]
EmptyDir(r) == [exists |-> TRUE, series |-> {}, by |-> r, log |-> <<>>]
Nil == "nil"
NoRet == "none"
NoTags == <<>>
KeyFieldSeparator == "#!~#"

\* The n-th composite key of the key space: series (n+1) \div 2, one of two
\* fields, so that two consecutive keys can belong to the same series.
CompositeKey(n) ==
    << <<"m", (n + 1) \div 2>>, <<"host", (n + 1) \div 2>>, KeyFieldSeparator,
       <<"f", n % 2>> >>

\* The sorted keys of one TSM file, or of the cache: n keys starting at from.
KeySeq(from, n) == [k \in 1..n |-> CompositeKey(from + k - 1)]

\* The series a previous, aborted run may have left at <shard>/.index.
StaleSeries == << <<"m", 0>>, <<"host", 0>> >>

SepIndex(key) == CHOOSE k \in 1..Len(key) : key[k] = KeyFieldSeparator

\* tsm1.SeriesAndFieldFromCompositeKey: the parts before and after the separator.
SeriesAndFieldFromCompositeKey(key) ==
    <<SubSeq(key, 1, SepIndex(key) - 1), SubSeq(key, SepIndex(key) + 1, Len(key))>>

\* models.ParseKeyBytes: measurement name and tag set of a series key.
ParseKeyBytes(seriesKey) == <<Head(seriesKey), Tail(seriesKey)>>

\* One CreateSeriesListIfNotExists call: its three arrays and its caller.
Batch(keys, names, tags, from) ==
    [keys |-> keys, names |-> names, tags |-> tags, from |-> from]

AddStep(s) == IF steps # <<>> /\ steps[Len(steps)] = s THEN steps ELSE Append(steps, s)

\* Index contents after CreateSeriesListIfNotExists(keys, ...): create if not
\* exists, so an already present series is left as it is.
CreateSeriesListIfNotExists(dir, keys) ==
    [dir EXCEPT !.series = @ \union {keys[k] : k \in 1..Len(keys)}]

ISInit ==
    /\ indexPath \in {AbsentDir, EmptyDir(0)}
    /\ tmpPath \in {AbsentDir, [EmptyDir(0) EXCEPT !.series = {StaleSeries}]}
    /\ batchSize \in 0..MaxBatch
    /\ run = 1
    /\ pc = "start"
    /\ ret = NoRet
    /\ indexAtStart = indexPath.exists
    /\ idxOpen = FALSE
    /\ deferred = FALSE
    /\ closes = 0
    /\ filesLeft = 0
    /\ src = <<>>
    /\ i = 0
    /\ keysBatch = <<>>
    /\ namesBatch = <<>>
    /\ tagsBatch = <<>>
    /\ ti = 0
    /\ batches = <<>>
    /\ enumerated = {}
    /\ steps = <<>>
    /\ prev = [pc |-> "none", ret |-> NoRet, index |-> indexPath, tmp |-> tmpPath]
    /\ skipped = 0
    /\ walResult = "none"

\* A return of IndexShard; the deferred tsiIndex.Close() runs on the way out.
Return(value) ==
    /\ pc' = "done"
    /\ ret' = value
    /\ closes' = IF deferred THEN closes + 1 ELSE closes
    /\ idxOpen' = IF deferred THEN FALSE ELSE idxOpen

\* A panic unwinds IndexShard: deferred calls run, nothing is returned.
Panic ==
    /\ pc' = "panicked"
    /\ ret' = NoRet
    /\ closes' = IF deferred THEN closes + 1 ELSE closes
    /\ idxOpen' = IF deferred THEN FALSE ELSE idxOpen

\* A faulty variant: the existing index is not looked for.
StatIndexIgnored ==
    /\ pc = "start"
    /\ steps' = AddStep("Detect")
    /\ pc' = "clean"
    /\ UNCHANGED <<indexPath, tmpPath, batchSize, run, ret, indexAtStart, idxOpen,
                   deferred, closes, filesLeft, loopVars, enumerated, histVars,
                   rdVars, rpVars, xVars>>

\* os.Stat(indexPath): anything but "does not exist" makes the run skip.
StatIndex ==
    /\ pc = "start"
    /\ steps' = AddStep("Detect")
    /\ \E statErr \in BOOLEAN :
         IF indexPath.exists \/ statErr
            THEN Return(Nil)
            ELSE /\ pc' = "clean"
                 /\ UNCHANGED <<ret, closes, idxOpen>>
    /\ UNCHANGED <<indexPath, tmpPath, batchSize, run, indexAtStart, deferred,
                   filesLeft, loopVars, enumerated, histVars, rdVars, rpVars, xVars>>

\* A faulty variant: the temp path is left as the previous run left it.
RemoveTmpSkipped ==
    /\ pc = "clean"
    /\ steps' = AddStep("Clean")
    /\ pc' = "open"
    /\ UNCHANGED <<indexPath, tmpPath, batchSize, run, ret, indexAtStart, idxOpen,
                   deferred, closes, filesLeft, loopVars, enumerated, histVars,
                   rdVars, rpVars, xVars>>

\* os.RemoveAll(tmpPath)
RemoveTmp ==
    /\ pc = "clean"
    /\ steps' = AddStep("Clean")
    /\ \E ok \in BOOLEAN :
         IF ok
            THEN /\ tmpPath' = AbsentDir
                 /\ pc' = "open"
                 /\ UNCHANGED <<ret, closes, idxOpen>>
            ELSE /\ Return("err:RemoveAll")
                 /\ UNCHANGED tmpPath
    /\ UNCHANGED <<indexPath, batchSize, run, indexAtStart, deferred,
                   filesLeft, loopVars, enumerated, histVars, rdVars, rpVars, xVars>>

\* tsiIndex.Open() at tmpPath, then defer tsiIndex.Close().
OpenIndex ==
    /\ pc = "open"
    /\ steps' = AddStep("Open")
    /\ \E ok \in BOOLEAN :
         IF ok
            THEN /\ tmpPath' = IF tmpPath.exists THEN tmpPath ELSE EmptyDir(run)
                 /\ idxOpen' = TRUE
                 /\ deferred' = TRUE
                 /\ pc' = "collect"
                 /\ UNCHANGED <<ret, closes>>
            ELSE /\ Return("err:Open")
                 /\ UNCHANGED <<tmpPath, deferred>>
    /\ UNCHANGED <<indexPath, batchSize, run, indexAtStart,
                   filesLeft, loopVars, enumerated, histVars, rdVars, rpVars, xVars>>

\* collectTSMFiles(dataDir)
CollectTSMFiles ==
    /\ pc = "collect"
    /\ steps' = AddStep("IndexTSM")
    /\ \/ /\ \E n \in 0..MaxFiles : filesLeft' = n
          /\ pc' = "tsm"
          /\ UNCHANGED <<ret, closes, idxOpen>>
       \/ /\ Return("err:ReadDir")
          /\ UNCHANGED filesLeft
    /\ UNCHANGED <<indexPath, tmpPath, batchSize, run, indexAtStart, deferred,
                   loopVars, enumerated, histVars, rdVars, rpVars, xVars>>

\* The loop over tsmPaths is finished: go on to the WAL.
TSMFilesDone ==
    /\ pc = "tsm"
    /\ filesLeft = 0
    /\ pc' = "wal"
    /\ UNCHANGED <<indexPath, tmpPath, batchSize, run, ret, indexAtStart, idxOpen,
                   deferred, closes, filesLeft, loopVars, steps, enumerated, histVars, rdVars, rpVars, xVars>>

\* IndexTSMFile, up to its loop: os.Open(path), then tsm1.NewTSMReader(f).
\* A file that cannot be opened is returned as an error, which IndexShard
\* returns; a file the reader cannot parse is logged and skipped.
OpenTSMFile ==
    /\ pc = "tsm"
    /\ filesLeft > 0
    /\ \/ /\ Return("err:OpenTSM")
          /\ UNCHANGED <<filesLeft, loopVars, skipped>>
       \/ /\ filesLeft' = filesLeft - 1
          /\ skipped' = skipped + 1
          /\ UNCHANGED <<pc, ret, closes, idxOpen, loopVars>>
       \/ /\ \E n \in 0..MaxKeys, from \in 1..2 : src' = KeySeq(from, n)
          /\ i' = 0
          /\ keysBatch' = <<>>
          /\ namesBatch' = <<>>
          /\ tagsBatch' = [k \in 1..batchSize |-> NoTags]
          /\ ti' = 0
          /\ batches' = <<>>
          /\ pc' = "tsmloop"
          /\ UNCHANGED <<filesLeft, ret, closes, idxOpen, skipped>>
    /\ UNCHANGED <<indexPath, tmpPath, batchSize, run, indexAtStart, deferred,
                   steps, enumerated, prev, walResult, rdVars, rpVars, xVars>>

\* A faulty variant: the keys are taken from the end of the file.
KeyAtReversed(s, k) == s[Len(s) - k]

\* key, _ := r.KeyAt(i), for i from 0 to r.KeyCount() - 1
KeyAt(s, k) == s[k + 1]

\* if len(keysBatch) == batchSize
FlushBatch(n, size) == n = size

\* A faulty variant: what remains after the loop is not flushed.
FlushRemainingNever(n) == FALSE

\* if len(keysBatch) > 0
FlushRemaining(n) == n > 0

\* A faulty variant: the whole tag buffer is passed, not its first ti entries.
TagsSliceWhole(tb, n) == tb

\* tagsBatch[:ti]
TagsSlice(tb, n) == SubSeq(tb, 1, n)

\* One iteration of the loop of IndexTSMFile over KeyAt(i), with its flush.
IndexTSMFileKey ==
    /\ pc = "tsmloop"
    /\ i < Len(src)
    /\ LET seriesKey == SeriesAndFieldFromCompositeKey(KeyAt(src, i))[1]
           parsed == ParseKeyBytes(seriesKey)
           kb == Append(keysBatch, seriesKey)
           nb == Append(namesBatch, parsed[1])
       IN IF ti >= Len(tagsBatch)
             THEN \* tagsBatch[ti]: index out of range
                  /\ Panic
                  /\ UNCHANGED <<tmpPath, loopVars, enumerated, steps>>
             ELSE LET tb == [tagsBatch EXCEPT ![ti + 1] = parsed[2]]
                  IN IF FlushBatch(Len(kb), batchSize)
                        THEN \E ok \in BOOLEAN :
                               IF ok
                                  THEN /\ tmpPath' = CreateSeriesListIfNotExists(tmpPath, kb)
                                       /\ batches' = Append(batches,
                                              Batch(kb, nb, TagsSlice(tb, ti + 1), "tsm"))
                                       /\ keysBatch' = <<>>
                                       /\ namesBatch' = <<>>
                                       /\ tagsBatch' = tb
                                       /\ ti' = 0
                                       /\ i' = i + 1
                                       /\ enumerated' = enumerated \union {seriesKey}
                                       /\ steps' = AddStep("InsertTSM")
                                       /\ UNCHANGED <<pc, ret, closes, idxOpen, src>>
                                  ELSE /\ Return("err:CreateSeries")
                                       /\ UNCHANGED <<tmpPath, loopVars, enumerated, steps>>
                        ELSE /\ keysBatch' = kb
                             /\ namesBatch' = nb
                             /\ tagsBatch' = tb
                             /\ ti' = ti + 1
                             /\ i' = i + 1
                             /\ enumerated' = enumerated \union {seriesKey}
                             /\ UNCHANGED <<tmpPath, pc, ret, closes, idxOpen, src,
                                            batches, steps>>
    /\ UNCHANGED <<indexPath, batchSize, run, indexAtStart, deferred, filesLeft,
                   histVars, rdVars, rpVars, xVars>>

\* The end of IndexTSMFile: flush the remaining series, return nil.
IndexTSMFileFlush ==
    /\ pc = "tsmloop"
    /\ i >= Len(src)
    /\ IF FlushRemaining(Len(keysBatch))
          THEN \E ok \in BOOLEAN :
                 IF ok
                    THEN /\ tmpPath' = CreateSeriesListIfNotExists(tmpPath, keysBatch)
                         /\ batches' = Append(batches,
                                Batch(keysBatch, namesBatch, TagsSlice(tagsBatch, ti), "tsm"))
                         /\ steps' = AddStep("InsertTSM")
                         /\ filesLeft' = filesLeft - 1
                         /\ pc' = "tsm"
                         /\ UNCHANGED <<ret, closes, idxOpen>>
                    ELSE /\ Return("err:CreateSeries")
                         /\ UNCHANGED <<tmpPath, batches, steps, filesLeft>>
          ELSE /\ filesLeft' = filesLeft - 1
               /\ pc' = "tsm"
               /\ UNCHANGED <<tmpPath, batches, steps, ret, closes, idxOpen>>
    /\ UNCHANGED <<indexPath, batchSize, run, indexAtStart, deferred, src, i,
                   keysBatch, namesBatch, tagsBatch, ti, enumerated, histVars, rdVars, rpVars, xVars>>

\* A faulty variant: a missing WAL directory is an error like any other.
IsNotExistNever(r) == FALSE

\* os.IsNotExist(err) for the error of collectWALFiles: os.ErrNotExist for an
\* empty path, the error of os.Stat for a missing directory.
IsNotExist(r) == r \in {"empty", "notexist"}

\* collectWALFiles(walDir): an empty path or a missing directory is
\* os.ErrNotExist, which IndexShard takes as "no WAL"; any other error aborts.
CollectWALFiles ==
    /\ pc = "wal"
    /\ steps' = AddStep("LoadWAL")
    /\ \E r \in {"empty", "notexist", "error", "paths"} :
         /\ walResult' = r
         /\ IF r # "paths"
               THEN IF IsNotExist(r)
                       THEN /\ pc' = "compact"
                            /\ UNCHANGED <<ret, closes, idxOpen>>
                       ELSE Return("err:ReadDirWAL")
               ELSE /\ pc' = "load"
                    /\ UNCHANGED <<ret, closes, idxOpen>>
    /\ UNCHANGED <<indexPath, tmpPath, batchSize, run, indexAtStart, deferred,
                   filesLeft, loopVars, enumerated, prev, skipped, rdVars, rpVars, xVars>>

\* tsm1.NewCache, loader.Load(cache), then the three batch slices are made.
LoadCache ==
    /\ pc = "load"
    /\ \/ /\ Return("err:LoadWAL")
          /\ UNCHANGED loopVars
       \/ /\ \E n \in 0..MaxKeys, from \in 1..2 : src' = KeySeq(from, n)
          /\ i' = 0
          /\ keysBatch' = <<>>
          /\ namesBatch' = <<>>
          /\ tagsBatch' = <<>>
          /\ ti' = 0
          /\ batches' = <<>>
          /\ pc' = "cacheloop"
          /\ UNCHANGED <<ret, closes, idxOpen>>
    /\ UNCHANGED <<indexPath, tmpPath, batchSize, run, indexAtStart, deferred,
                   filesLeft, steps, enumerated, histVars, rdVars, rpVars, xVars>>

\* One iteration of the loop of IndexShard over cache.Keys(), with its flush.
IndexCacheKey ==
    /\ pc = "cacheloop"
    /\ i < Len(src)
    /\ LET seriesKey == SeriesAndFieldFromCompositeKey(KeyAt(src, i))[1]
           parsed == ParseKeyBytes(seriesKey)
           kb == Append(keysBatch, seriesKey)
           nb == Append(namesBatch, parsed[1])
           tb == Append(tagsBatch, parsed[2])
       IN IF FlushBatch(Len(kb), batchSize)
             THEN \E ok \in BOOLEAN :
                    IF ok
                       THEN /\ tmpPath' = CreateSeriesListIfNotExists(tmpPath, kb)
                            /\ batches' = Append(batches, Batch(kb, nb, tb, "cache"))
                            /\ keysBatch' = <<>>
                            /\ namesBatch' = <<>>
                            /\ tagsBatch' = <<>>
                            /\ i' = i + 1
                            /\ enumerated' = enumerated \union {seriesKey}
                            /\ steps' = AddStep("InsertCache")
                            /\ UNCHANGED <<pc, ret, closes, idxOpen, src, ti>>
                       ELSE /\ Return("err:CreateSeries")
                            /\ UNCHANGED <<tmpPath, loopVars, enumerated, steps>>
             ELSE /\ keysBatch' = kb
                  /\ namesBatch' = nb
                  /\ tagsBatch' = tb
                  /\ i' = i + 1
                  /\ enumerated' = enumerated \union {seriesKey}
                  /\ UNCHANGED <<tmpPath, pc, ret, closes, idxOpen, src, ti,
                                 batches, steps>>
    /\ UNCHANGED <<indexPath, batchSize, run, indexAtStart, deferred, filesLeft,
                   histVars, rdVars, rpVars, xVars>>

\* After the cache loop: flush the remaining series.
IndexCacheFlush ==
    /\ pc = "cacheloop"
    /\ i >= Len(src)
    /\ IF FlushRemaining(Len(keysBatch))
          THEN \E ok \in BOOLEAN :
                 IF ok
                    THEN /\ tmpPath' = CreateSeriesListIfNotExists(tmpPath, keysBatch)
                         /\ batches' = Append(batches,
                                Batch(keysBatch, namesBatch, tagsBatch, "cache"))
                         /\ steps' = AddStep("InsertCache")
                         /\ keysBatch' = <<>>
                         /\ namesBatch' = <<>>
                         /\ tagsBatch' = <<>>
                         /\ pc' = "compact"
                         /\ UNCHANGED <<ret, closes, idxOpen>>
                    ELSE /\ Return("err:CreateSeries")
                         /\ UNCHANGED <<tmpPath, batches, steps, keysBatch,
                                        namesBatch, tagsBatch>>
          ELSE /\ pc' = "compact"
               /\ UNCHANGED <<tmpPath, batches, steps, keysBatch, namesBatch,
                              tagsBatch, ret, closes, idxOpen>>
    /\ UNCHANGED <<indexPath, batchSize, run, indexAtStart, deferred, filesLeft,
                   src, i, ti, enumerated, histVars, rdVars, rpVars, xVars>>

\* A faulty variant: the index is not compacted before it is waited for.
CompactSkipped ==
    /\ pc = "compact"
    /\ pc' = "wait"
    /\ UNCHANGED <<indexPath, tmpPath, batchSize, run, ret, indexAtStart, idxOpen,
                   deferred, closes, filesLeft, loopVars, steps, enumerated,
                   histVars, rdVars, rpVars, xVars>>

\* tsiIndex.Compact()
Compact ==
    /\ pc = "compact"
    /\ steps' = AddStep("Compact")
    /\ pc' = "wait"
    /\ UNCHANGED <<indexPath, tmpPath, batchSize, run, ret, indexAtStart, idxOpen,
                   deferred, closes, filesLeft, loopVars, enumerated, histVars, rdVars, rpVars, xVars>>

\* tsiIndex.Wait()
Wait ==
    /\ pc = "wait"
    /\ steps' = AddStep("Wait")
    /\ pc' = "close"
    /\ UNCHANGED <<indexPath, tmpPath, batchSize, run, ret, indexAtStart, idxOpen,
                   deferred, closes, filesLeft, loopVars, enumerated, histVars, rdVars, rpVars, xVars>>

\* A faulty variant: the error of Close is dropped and the run goes on.
CloseIndexErrorDropped ==
    /\ pc = "close"
    /\ \E ok \in BOOLEAN :
         /\ steps' = AddStep(IF ok THEN "Close" ELSE "CloseFailed")
         /\ closes' = closes + 1
         /\ idxOpen' = FALSE
         /\ pc' = "rename"
         /\ UNCHANGED ret
    /\ UNCHANGED <<indexPath, tmpPath, batchSize, run, indexAtStart, deferred,
                   filesLeft, loopVars, enumerated, histVars, rdVars, rpVars, xVars>>

\* tsiIndex.Close(), the explicit one: an error is returned.
CloseIndex ==
    /\ pc = "close"
    /\ \E ok \in BOOLEAN :
         IF ok
            THEN /\ steps' = AddStep("Close")
                 /\ closes' = closes + 1
                 /\ idxOpen' = FALSE
                 /\ pc' = "rename"
                 /\ UNCHANGED ret
            ELSE /\ pc' = "done"
                 /\ ret' = "err:Close"
                 /\ steps' = AddStep("CloseFailed")
                 /\ closes' = closes + 2
                 /\ idxOpen' = FALSE
    /\ UNCHANGED <<indexPath, tmpPath, batchSize, run, indexAtStart, deferred,
                   filesLeft, loopVars, enumerated, histVars, rdVars, rpVars, xVars>>

\* A faulty variant: the error of the rename is dropped.
RenameErrorDropped ==
    /\ pc = "rename"
    /\ steps' = AddStep("Rename")
    /\ \E ok \in BOOLEAN :
         /\ IF ok
               THEN /\ indexPath' = [tmpPath EXCEPT !.log = steps']
                    /\ tmpPath' = AbsentDir
               ELSE UNCHANGED <<indexPath, tmpPath>>
         /\ Return(Nil)
    /\ UNCHANGED <<batchSize, run, indexAtStart, deferred, filesLeft, loopVars,
                   enumerated, histVars, rdVars, rpVars, xVars>>

\* return os.Rename(tmpPath, indexPath)
Rename ==
    /\ pc = "rename"
    /\ steps' = AddStep("Rename")
    /\ \E ok \in BOOLEAN :
         IF ok
            THEN /\ indexPath' = [tmpPath EXCEPT !.log = steps']
                 /\ tmpPath' = AbsentDir
                 /\ Return(Nil)
            ELSE /\ Return("err:Rename")
                 /\ UNCHANGED <<indexPath, tmpPath>>
    /\ UNCHANGED <<batchSize, run, indexAtStart, deferred, filesLeft, loopVars,
                   enumerated, histVars, rdVars, rpVars, xVars>>

Running == pc \notin {"done", "interrupted", "panicked"}

\* The process is killed while IndexShard runs: nothing more is executed.
Interrupt ==
    /\ Running
    /\ pc' = "interrupted"
    /\ UNCHANGED <<indexPath, tmpPath, batchSize, run, ret, indexAtStart, idxOpen,
                   deferred, closes, filesLeft, loopVars, steps, enumerated, histVars, rdVars, rpVars, xVars>>

\* The tool is run again on the same shard.
Rerun ==
    /\ ~Running
    /\ run < MaxRuns
    /\ run' = run + 1
    /\ pc' = "start"
    /\ ret' = NoRet
    /\ indexAtStart' = indexPath.exists
    /\ idxOpen' = FALSE
    /\ deferred' = FALSE
    /\ closes' = 0
    /\ filesLeft' = 0
    /\ src' = <<>>
    /\ i' = 0
    /\ keysBatch' = <<>>
    /\ namesBatch' = <<>>
    /\ tagsBatch' = <<>>
    /\ ti' = 0
    /\ batches' = <<>>
    /\ enumerated' = {}
    /\ steps' = <<>>
    /\ prev' = [pc |-> pc, ret |-> ret, index |-> indexPath, tmp |-> tmpPath]
    /\ skipped' = 0
    /\ walResult' = "none"
    /\ UNCHANGED <<indexPath, tmpPath, batchSize, rdVars, rpVars, xVars>>

\* The parts of the state a specification does not use stay as they start.
XIdleBut(used) ==
    /\ used # "pt" => pt = [pc |-> "idle"]
    /\ used # "drv" => drv = [pc |-> "idle"]
    /\ used # "sf" => sf = [pc |-> "idle"]
    /\ used # "rsp" => rsp = [pc |-> "idle"]
    /\ used # "wr" => wr = [pc |-> "idle"]
    /\ used # "srv" => srv = [pc |-> "idle"]
    /\ used # "nd" => nd = [pc |-> "idle"]

XIdle == XIdleBut("none")

RDIdle ==
    /\ b = <<>>
    /\ tmu = [readers |-> {}, writer |-> "none"]
    /\ mmu = [readers |-> {}, writer |-> "none"]
    /\ accessCount = 0
    /\ rd = <<>>
    /\ cl = [pc |-> "idle", via |-> FALSE]

RPIdle ==
    /\ shards = <<>>
    /\ concurrency = 0
    /\ outcome = <<>>
    /\ maxi = 0
    /\ errC = <<>>
    /\ wk = <<>>
    /\ calls = <<>>
    /\ orch = [pc |-> "returned", i |-> 0, ret |-> [isErr |-> FALSE, of |-> 0]]
    /\ received = <<>>
    /\ callsAtReturn = 0

Init == ISInit /\ RDIdle /\ RPIdle /\ XIdle

Next ==
    \/ StatIndex \/ RemoveTmp \/ OpenIndex \/ CollectTSMFiles \/ TSMFilesDone
    \/ OpenTSMFile \/ IndexTSMFileKey \/ IndexTSMFileFlush \/ CollectWALFiles
    \/ LoadCache \/ IndexCacheKey \/ IndexCacheFlush \/ Compact \/ Wait
    \/ CloseIndex \/ Rename \/ Interrupt \/ Rerun

Spec == Init /\ [][Next]_vars

\* ------------------------------------------------- TSMReader, mmapAccessor
\* The ten typed read methods of TSMReader, and the ten of mmapAccessor, are
\* the same text up to the decoder they call (reader.gen.go.tmpl): a caller
\* stands for a call of any one of them.

Readers == 1..NumReaders

\* int64 arithmetic wraps; the model's word runs from -(MaxInt64+1) to MaxInt64.
Wrap64(x) == ((x + MaxInt64 + 1) % (2 * (MaxInt64 + 1))) - (MaxInt64 + 1)

\* The bytes of the file: the byte at Go index k-1 has the value k.
FileBytes == [k \in 1..FileLen |-> k]

IndexEntry(offset, size) == [Offset |-> offset, Size |-> size]

\* The index entries callers pass: well-formed blocks of the file, a block
\* that ends past the file, and entries no index of a sound file holds (size
\* under the 4 checksum bytes, negative offset, an offset at the end of int64).
Entries ==
    { IndexEntry(0, FileLen), IndexEntry(1, FileLen - 1), IndexEntry(1, FileLen),
      IndexEntry(0, 4), IndexEntry(0, 0), IndexEntry(0, 3), IndexEntry(-1, 5),
      IndexEntry(-4, 4), IndexEntry(MaxInt64, 1) }

\* entry.Offset+int64(entry.Size)
EntryEnd(entry) == Wrap64(entry.Offset + entry.Size)

\* A faulty variant: the comparison is off by one.
BoundsCheckOffByOne(len, entry) == len <= EntryEnd(entry)

\* int64(len(m.b)) < entry.Offset+int64(entry.Size)
BoundsCheckFails(len, entry) == len < EntryEnd(entry)

\* A faulty variant: the range starts at the entry's offset.
SliceLowAtOffset(entry) == Wrap64(entry.Offset + 0)

\* m.b[entry.Offset+4:entry.Offset+int64(entry.Size)]
SliceLow(entry) == Wrap64(entry.Offset + 4)
SliceHigh(entry) == EntryEnd(entry)

\* A Go slice expression s[low:high] panics unless 0 <= low <= high <= cap(s).
SliceInRange(len, low, high) == 0 <= low /\ low <= high /\ high <= len

Slice(bytes, low, high) == SubSeq(bytes, low + 1, high)

\* Decode<Type>Block / Decode<Type>ArrayBlock: an empty payload is rejected.
DecodeBlock(bytes) == IF bytes = <<>> THEN "decodeErr" ELSE "values"

\* sync.RWMutex: RLock waits while a writer holds the lock or waits for it;
\* Lock announces itself, then waits for the readers to leave.
Unlocked == [readers |-> {}, writer |-> "none"]
CanRLock(mu) == mu.writer = "none"
RLock(mu, r) == [mu EXCEPT !.readers = @ \union {r}]
RUnlock(mu, r) == [mu EXCEPT !.readers = @ \ {r}]
CanRequestLock(mu) == mu.writer = "none"
RequestLock(mu) == [mu EXCEPT !.writer = "waiting"]
CanLock(mu) == mu.writer = "waiting" /\ mu.readers = {}
Lock(mu) == [mu EXCEPT !.writer = "held"]
Unlock(mu) == [mu EXCEPT !.writer = "none"]

\* A faulty variant: the read takes the lock exclusively, as Lock() would.
CanEnterExclusive(mu) == mu.writer = "none" /\ mu.readers = {}

\* t.mu.RLock() of Read<Type>BlockAt and m.mu.RLock() of read<Type>Block can
\* proceed: both take the lock shared.
CanEnterReader(mu) == CanRLock(mu)
CanEnterAccessor(mu) == CanRLock(mu)

NoEntry == IndexEntry(0, 0)
IdleReader ==
    [pc |-> "idle", entry |-> NoEntry, len |-> 0, given |-> <<>>, called |-> FALSE,
     res |-> "none"]

RDInit ==
    /\ b = FileBytes
    /\ tmu = Unlocked
    /\ mmu = Unlocked
    /\ accessCount = 0
    /\ rd = [r \in Readers |-> IdleReader]
    /\ cl = [pc |-> "idle", via |-> FALSE]

\* TSMReader.Read<Type>BlockAt: t.mu.RLock()
ReadBlockAt(r) ==
    /\ rd[r].pc = "idle"
    /\ CanEnterReader(tmu)
    /\ tmu' = RLock(tmu, r)
    /\ \E e \in Entries : rd' = [rd EXCEPT ![r].pc = "tlocked", ![r].entry = e]
    /\ UNCHANGED <<b, mmu, accessCount, cl, isVars, rpVars, xVars>>

\* A faulty variant: the access is not counted.
IncAccessLost(r) ==
    /\ rd[r].pc = "tlocked"
    /\ rd' = [rd EXCEPT ![r].pc = "counted"]
    /\ UNCHANGED <<b, tmu, mmu, accessCount, cl, isVars, rpVars, xVars>>

\* mmapAccessor.read<Type>Block: m.incAccess()
IncAccess(r) ==
    /\ rd[r].pc = "tlocked"
    /\ accessCount' = accessCount + 1
    /\ rd' = [rd EXCEPT ![r].pc = "counted"]
    /\ UNCHANGED <<b, tmu, mmu, cl, isVars, rpVars, xVars>>

\* m.mu.RLock()
AccessorRLock(r) ==
    /\ rd[r].pc = "counted"
    /\ CanEnterAccessor(mmu)
    /\ mmu' = RLock(mmu, r)
    /\ rd' = [rd EXCEPT ![r].pc = "mlocked"]
    /\ UNCHANGED <<b, tmu, accessCount, cl, isVars, rpVars, xVars>>

\* The bounds check: on failure m.mu.RUnlock() and return ErrTSMClosed.
BoundsCheck(r) ==
    /\ rd[r].pc = "mlocked"
    /\ IF BoundsCheckFails(Len(b), rd[r].entry)
          THEN /\ mmu' = RUnlock(mmu, r)
               /\ rd' = [rd EXCEPT ![r].pc = "returned", ![r].len = Len(b),
                                   ![r].res = "ErrTSMClosed"]
          ELSE /\ rd' = [rd EXCEPT ![r].pc = "checked", ![r].len = Len(b)]
               /\ UNCHANGED mmu
    /\ UNCHANGED <<b, tmu, accessCount, cl, isVars, rpVars, xVars>>

\* The slice expression and the call of the decoder on its result. An
\* out-of-range slice expression panics: the call leaves with both read
\* locks held, no RUnlock being deferred.
CallDecoder(r) ==
    /\ rd[r].pc = "checked"
    /\ IF SliceInRange(Len(b), SliceLow(rd[r].entry), SliceHigh(rd[r].entry))
          THEN rd' = [rd EXCEPT
                        ![r].pc = "decoding", ![r].called = TRUE,
                        ![r].given = Slice(b, SliceLow(rd[r].entry), SliceHigh(rd[r].entry))]
          ELSE rd' = [rd EXCEPT ![r].pc = "panicked", ![r].res = "panic"]
    /\ UNCHANGED <<b, tmu, mmu, accessCount, cl, isVars, rpVars, xVars>>

\* The decoder returns, having read the bytes it was given; m.mu.RUnlock().
DecoderReturns(r) ==
    /\ rd[r].pc = "decoding"
    /\ mmu' = RUnlock(mmu, r)
    /\ rd' = [rd EXCEPT ![r].pc = "returned", ![r].res = DecodeBlock(rd[r].given)]
    /\ UNCHANGED <<b, tmu, accessCount, cl, isVars, rpVars, xVars>>

\* Back in TSMReader.Read<Type>BlockAt: t.mu.RUnlock(), return.
ReadBlockAtReturns(r) ==
    /\ rd[r].pc = "returned"
    /\ tmu' = RUnlock(tmu, r)
    /\ rd' = [rd EXCEPT ![r].pc = "done"]
    /\ UNCHANGED <<b, mmu, accessCount, cl, isVars, rpVars, xVars>>

\* A close begins: TSMReader.Close takes t.mu, then calls the accessor's
\* close; the accessor's close alone takes m.mu.
CloseStart ==
    /\ cl.pc = "idle"
    /\ \/ /\ CanRequestLock(tmu)
          /\ tmu' = RequestLock(tmu)
          /\ cl' = [pc |-> "twait", via |-> TRUE]
          /\ UNCHANGED mmu
       \/ /\ CanRequestLock(mmu)
          /\ mmu' = RequestLock(mmu)
          /\ cl' = [pc |-> "mwait", via |-> FALSE]
          /\ UNCHANGED tmu
    /\ UNCHANGED <<b, accessCount, rd, isVars, rpVars, xVars>>

\* TSMReader.Close holds t.mu and calls accessor.close(): m.mu.Lock().
CloseLockReader ==
    /\ cl.pc = "twait"
    /\ CanLock(tmu)
    /\ CanRequestLock(mmu)
    /\ tmu' = Lock(tmu)
    /\ mmu' = RequestLock(mmu)
    /\ cl' = [cl EXCEPT !.pc = "mwait"]
    /\ UNCHANGED <<b, accessCount, rd, isVars, rpVars, xVars>>

\* mmapAccessor.close: m.mu.Lock() is granted.
CloseLockAccessor ==
    /\ cl.pc = "mwait"
    /\ CanLock(mmu)
    /\ mmu' = Lock(mmu)
    /\ cl' = [cl EXCEPT !.pc = "mlocked"]
    /\ UNCHANGED <<b, tmu, accessCount, rd, isVars, rpVars, xVars>>

\* mmapAccessor.close: munmap(m.b), m.b = nil, m.mu.Unlock().
CloseUnmap ==
    /\ cl.pc = "mlocked"
    /\ b' = <<>>
    /\ mmu' = Unlock(mmu)
    /\ cl' = [cl EXCEPT !.pc = IF cl.via THEN "tunlock" ELSE "done"]
    /\ UNCHANGED <<tmu, accessCount, rd, isVars, rpVars, xVars>>

\* TSMReader.Close returns: t.mu.Unlock().
CloseUnlockReader ==
    /\ cl.pc = "tunlock"
    /\ tmu' = Unlock(tmu)
    /\ cl' = [cl EXCEPT !.pc = "done"]
    /\ UNCHANGED <<b, mmu, accessCount, rd, isVars, rpVars, xVars>>

ISIdle ==
    /\ indexPath = AbsentDir
    /\ tmpPath = AbsentDir
    /\ batchSize = 0
    /\ run = MaxRuns
    /\ pc = "done"
    /\ ret = Nil
    /\ indexAtStart = FALSE
    /\ idxOpen = FALSE
    /\ deferred = FALSE
    /\ closes = 0
    /\ filesLeft = 0
    /\ src = <<>>
    /\ i = 0
    /\ keysBatch = <<>>
    /\ namesBatch = <<>>
    /\ tagsBatch = <<>>
    /\ ti = 0
    /\ batches = <<>>
    /\ enumerated = {}
    /\ steps = <<>>
    /\ prev = [pc |-> "none", ret |-> NoRet, index |-> AbsentDir, tmp |-> AbsentDir]
    /\ skipped = 0
    /\ walResult = "none"

InitReader == RDInit /\ ISIdle /\ RPIdle /\ XIdle

NextReader ==
    \/ \E r \in Readers :
         \/ ReadBlockAt(r) \/ IncAccess(r) \/ AccessorRLock(r) \/ BoundsCheck(r)
         \/ CallDecoder(r) \/ DecoderReturns(r) \/ ReadBlockAtReturns(r)
    \/ CloseStart \/ CloseLockReader \/ CloseLockAccessor \/ CloseUnmap
    \/ CloseUnlockReader

SpecReader == InitReader /\ [][NextReader]_vars

\* ------------------------------------------------- processRetentionPolicy
\* The part after the directory listing: the shard list is given.

Workers == 1..MaxWorkers

\* The error values: nil, and the error IndexShard returns for a shard.
NilError == [isErr |-> FALSE, of |-> 0]
ShardError(s) == [isErr |-> TRUE, of |-> s]

\* IndexShard(sfile, shards[i], ...), as processRetentionPolicy sees it: a
\* call that returns nil or an error, decided by the shard's directory.
IndexShard(s) == IF outcome[s] THEN NilError ELSE ShardError(s)

\* A faulty variant: the channel is sized to the number of workers.
ChanCapWorkers == concurrency

\* errC := make(chan error, len(shards))
ChanCap == Len(shards)

\* A faulty variant: a read-modify-write that loses the second increment.
AddUint32Lost(x) == IF x = 1 THEN x ELSE x + 1

\* atomic.AddUint32(&maxi, 1)
AddUint32(x) == x + 1

\* A faulty variant: an error is dropped and the loop goes on.
ErrorDropped(err) == FALSE

\* if err := <-errC; err != nil { return err }
ReturnsError(err) == err.isErr

\* A faulty variant: a worker stops after a shard that failed.
StopOnError(res) == IF res.isErr THEN "exit" ELSE "claim"

\* The worker's loop has no exit but the end of the list: after sending the
\* result, whatever it is, it claims again.
AfterSend(res) == "claim"

RPInit ==
    /\ \E n \in 0..MaxShards :
         /\ shards = [k \in 1..n |-> k]
         /\ outcome \in [1..n -> BOOLEAN]
         /\ calls = [k \in 1..n |-> 0]
    \* --concurrency is an int flag that nothing validates: zero and a
    \* negative number are values the program runs with.
    /\ concurrency \in -1..MaxWorkers
    /\ maxi = 0
    /\ errC = <<>>
    /\ wk = <<>>
    /\ orch = [pc |-> "spawn", i |-> 0, ret |-> NilError]
    /\ received = <<>>
    /\ callsAtReturn = 0

\* for k := 0; k < o.concurrency; k++ { go func() {...}() }
Spawn ==
    /\ orch.pc = "spawn"
    /\ IF orch.i < concurrency
          THEN /\ wk' = Append(wk, [pc |-> "claim", i |-> 0, res |-> NilError])
               /\ orch' = [orch EXCEPT !.i = @ + 1]
          ELSE /\ orch' = [orch EXCEPT !.pc = "drain", !.i = 0]
               /\ UNCHANGED wk
    /\ UNCHANGED <<shards, concurrency, outcome, maxi, errC, calls, received,
                   callsAtReturn, isVars, rdVars, xVars>>

\* i := int(atomic.AddUint32(&maxi, 1) - 1); if i >= len(shards) { return }
Claim(w) ==
    /\ w \in DOMAIN wk
    /\ wk[w].pc = "claim"
    /\ maxi' = AddUint32(maxi)
    /\ LET idx == AddUint32(maxi) - 1
       IN wk' = [wk EXCEPT ![w].i = idx,
                           ![w].pc = IF idx >= Len(shards) THEN "exit" ELSE "claimed"]
    /\ UNCHANGED <<shards, concurrency, outcome, errC, calls, orch, received,
                   callsAtReturn, isVars, rdVars, xVars>>

\* The worker enters IndexShard for shards[i].
CallIndexShard(w) ==
    /\ w \in DOMAIN wk
    /\ wk[w].pc = "claimed"
    /\ calls' = [calls EXCEPT ![wk[w].i + 1] = @ + 1]
    /\ wk' = [wk EXCEPT ![w].pc = "indexing"]
    /\ UNCHANGED <<shards, concurrency, outcome, maxi, errC, orch, received,
                   callsAtReturn, isVars, rdVars, xVars>>

\* IndexShard returns.
IndexShardReturns(w) ==
    /\ w \in DOMAIN wk
    /\ wk[w].pc = "indexing"
    /\ wk' = [wk EXCEPT ![w].pc = "send", ![w].res = IndexShard(shards[wk[w].i + 1])]
    /\ UNCHANGED <<shards, concurrency, outcome, maxi, errC, calls, orch, received,
                   callsAtReturn, isVars, rdVars, xVars>>

\* errC <- result: blocks while the channel is full.
Send(w) ==
    /\ w \in DOMAIN wk
    /\ wk[w].pc = "send"
    /\ Len(errC) < ChanCap
    /\ errC' = Append(errC, wk[w].res)
    /\ wk' = [wk EXCEPT ![w].pc = AfterSend(wk[w].res)]
    /\ UNCHANGED <<shards, concurrency, outcome, maxi, calls, orch, received,
                   callsAtReturn, isVars, rdVars, xVars>>

Invocations == LET Sum[k \in 0..Len(shards)] == IF k = 0 THEN 0 ELSE Sum[k - 1] + calls[k]
               IN Sum[Len(shards)]

\* One iteration of the drain loop: receive, return the value if it is an error.
Receive ==
    /\ orch.pc = "drain"
    /\ orch.i < ChanCap
    /\ errC # <<>>
    /\ errC' = Tail(errC)
    /\ received' = Append(received, Head(errC))
    /\ IF ReturnsError(Head(errC))
          THEN /\ orch' = [orch EXCEPT !.pc = "returned", !.ret = Head(errC)]
               /\ callsAtReturn' = Invocations
          ELSE /\ orch' = [orch EXCEPT !.i = @ + 1]
               /\ UNCHANGED callsAtReturn
    /\ UNCHANGED <<shards, concurrency, outcome, maxi, wk, calls, isVars, rdVars, xVars>>

\* The drain loop is over: return nil.
ReturnNil ==
    /\ orch.pc = "drain"
    /\ orch.i >= ChanCap
    /\ orch' = [orch EXCEPT !.pc = "returned", !.ret = NilError]
    /\ callsAtReturn' = Invocations
    /\ UNCHANGED <<shards, concurrency, outcome, maxi, errC, wk, calls, received,
                   isVars, rdVars, xVars>>

Worker(w) == Claim(w) \/ CallIndexShard(w) \/ IndexShardReturns(w) \/ Send(w)

InitRP == RPInit /\ ISIdle /\ RDIdle /\ XIdle

NextRP == Spawn \/ (\E w \in Workers : Worker(w)) \/ Receive \/ ReturnNil

SpecRP == InitRP /\ [][NextRP]_vars

\* Goroutines are scheduled fairly: a step that stays possible is taken.
LiveSpecRP ==
    /\ SpecRP
    /\ WF_vars(Spawn)
    /\ WF_vars(Receive)
    /\ WF_vars(ReturnNil)
    /\ \A w \in Workers : WF_vars(Worker(w))

\* ------------------------------------------ the ten typed read paths
\* A faulty variant: readStringArrayBlock releases the lock before decoding.
AccessorsStringArrayUnlocksEarly ==
    [
      readFloatBlock |->
        [ steps   |-> <<"incAccess", "RLock", "check", "decode", "RUnlock", "return">>,
          short   |-> <<"RUnlock", "return ErrTSMClosed">>,
          lowAdd  |-> 4,
          decoder |-> "DecodeFloatBlock",
          result  |-> "values, err" ],
      readFloatArrayBlock |->
        [ steps   |-> <<"incAccess", "RLock", "check", "decode", "RUnlock", "return">>,
          short   |-> <<"RUnlock", "return ErrTSMClosed">>,
          lowAdd  |-> 4,
          decoder |-> "DecodeFloatArrayBlock",
          result  |-> "err" ],
      readIntegerBlock |->
        [ steps   |-> <<"incAccess", "RLock", "check", "decode", "RUnlock", "return">>,
          short   |-> <<"RUnlock", "return ErrTSMClosed">>,
          lowAdd  |-> 4,
          decoder |-> "DecodeIntegerBlock",
          result  |-> "values, err" ],
      readIntegerArrayBlock |->
        [ steps   |-> <<"incAccess", "RLock", "check", "decode", "RUnlock", "return">>,
          short   |-> <<"RUnlock", "return ErrTSMClosed">>,
          lowAdd  |-> 4,
          decoder |-> "DecodeIntegerArrayBlock",
          result  |-> "err" ],
      readUnsignedBlock |->
        [ steps   |-> <<"incAccess", "RLock", "check", "decode", "RUnlock", "return">>,
          short   |-> <<"RUnlock", "return ErrTSMClosed">>,
          lowAdd  |-> 4,
          decoder |-> "DecodeUnsignedBlock",
          result  |-> "values, err" ],
      readUnsignedArrayBlock |->
        [ steps   |-> <<"incAccess", "RLock", "check", "decode", "RUnlock", "return">>,
          short   |-> <<"RUnlock", "return ErrTSMClosed">>,
          lowAdd  |-> 4,
          decoder |-> "DecodeUnsignedArrayBlock",
          result  |-> "err" ],
      readStringBlock |->
        [ steps   |-> <<"incAccess", "RLock", "check", "decode", "RUnlock", "return">>,
          short   |-> <<"RUnlock", "return ErrTSMClosed">>,
          lowAdd  |-> 4,
          decoder |-> "DecodeStringBlock",
          result  |-> "values, err" ],
      readStringArrayBlock |->
        [ steps   |-> <<"incAccess", "RLock", "check", "RUnlock", "decode", "return">>,
          short   |-> <<"RUnlock", "return ErrTSMClosed">>,
          lowAdd  |-> 4,
          decoder |-> "DecodeStringArrayBlock",
          result  |-> "err" ],
      readBooleanBlock |->
        [ steps   |-> <<"incAccess", "RLock", "check", "decode", "RUnlock", "return">>,
          short   |-> <<"RUnlock", "return ErrTSMClosed">>,
          lowAdd  |-> 4,
          decoder |-> "DecodeBooleanBlock",
          result  |-> "values, err" ],
      readBooleanArrayBlock |->
        [ steps   |-> <<"incAccess", "RLock", "check", "decode", "RUnlock", "return">>,
          short   |-> <<"RUnlock", "return ErrTSMClosed">>,
          lowAdd  |-> 4,
          decoder |-> "DecodeBooleanArrayBlock",
          result  |-> "err" ] ]

\* mmapAccessor.read<Type>Block / read<Type>ArrayBlock: each method written
\* down from its own body: its statements in order, the statements of the
\* branch taken when the mapped region is shorter than the entry's end, what
\* is added to entry.Offset for the low end of the slice, the decoder, and
\* the shape of the result ("values, err" for a Block method, "err" for an
\* ArrayBlock one).
Accessors ==
    [
      readFloatBlock |->
        [ steps   |-> <<"incAccess", "RLock", "check", "decode", "RUnlock", "return">>,
          short   |-> <<"RUnlock", "return ErrTSMClosed">>,
          lowAdd  |-> 4,
          decoder |-> "DecodeFloatBlock",
          result  |-> "values, err" ],
      readFloatArrayBlock |->
        [ steps   |-> <<"incAccess", "RLock", "check", "decode", "RUnlock", "return">>,
          short   |-> <<"RUnlock", "return ErrTSMClosed">>,
          lowAdd  |-> 4,
          decoder |-> "DecodeFloatArrayBlock",
          result  |-> "err" ],
      readIntegerBlock |->
        [ steps   |-> <<"incAccess", "RLock", "check", "decode", "RUnlock", "return">>,
          short   |-> <<"RUnlock", "return ErrTSMClosed">>,
          lowAdd  |-> 4,
          decoder |-> "DecodeIntegerBlock",
          result  |-> "values, err" ],
      readIntegerArrayBlock |->
        [ steps   |-> <<"incAccess", "RLock", "check", "decode", "RUnlock", "return">>,
          short   |-> <<"RUnlock", "return ErrTSMClosed">>,
          lowAdd  |-> 4,
          decoder |-> "DecodeIntegerArrayBlock",
          result  |-> "err" ],
      readUnsignedBlock |->
        [ steps   |-> <<"incAccess", "RLock", "check", "decode", "RUnlock", "return">>,
          short   |-> <<"RUnlock", "return ErrTSMClosed">>,
          lowAdd  |-> 4,
          decoder |-> "DecodeUnsignedBlock",
          result  |-> "values, err" ],
      readUnsignedArrayBlock |->
        [ steps   |-> <<"incAccess", "RLock", "check", "decode", "RUnlock", "return">>,
          short   |-> <<"RUnlock", "return ErrTSMClosed">>,
          lowAdd  |-> 4,
          decoder |-> "DecodeUnsignedArrayBlock",
          result  |-> "err" ],
      readStringBlock |->
        [ steps   |-> <<"incAccess", "RLock", "check", "decode", "RUnlock", "return">>,
          short   |-> <<"RUnlock", "return ErrTSMClosed">>,
          lowAdd  |-> 4,
          decoder |-> "DecodeStringBlock",
          result  |-> "values, err" ],
      readStringArrayBlock |->
        [ steps   |-> <<"incAccess", "RLock", "check", "decode", "RUnlock", "return">>,
          short   |-> <<"RUnlock", "return ErrTSMClosed">>,
          lowAdd  |-> 4,
          decoder |-> "DecodeStringArrayBlock",
          result  |-> "err" ],
      readBooleanBlock |->
        [ steps   |-> <<"incAccess", "RLock", "check", "decode", "RUnlock", "return">>,
          short   |-> <<"RUnlock", "return ErrTSMClosed">>,
          lowAdd  |-> 4,
          decoder |-> "DecodeBooleanBlock",
          result  |-> "values, err" ],
      readBooleanArrayBlock |->
        [ steps   |-> <<"incAccess", "RLock", "check", "decode", "RUnlock", "return">>,
          short   |-> <<"RUnlock", "return ErrTSMClosed">>,
          lowAdd  |-> 4,
          decoder |-> "DecodeBooleanArrayBlock",
          result  |-> "err" ] ]

\* TSMReader.Read<Type>BlockAt / Read<Type>ArrayBlockAt, likewise: the
\* statements in order (the accessor call by the accessor method's name) and
\* the shape of what is returned.
ReaderMethods ==
    [
      ReadFloatBlockAt |->
        [ steps  |-> <<"RLock", "readFloatBlock", "RUnlock", "return">>,
          result |-> "values, err" ],
      ReadFloatArrayBlockAt |->
        [ steps  |-> <<"RLock", "readFloatArrayBlock", "RUnlock", "return">>,
          result |-> "err" ],
      ReadIntegerBlockAt |->
        [ steps  |-> <<"RLock", "readIntegerBlock", "RUnlock", "return">>,
          result |-> "values, err" ],
      ReadIntegerArrayBlockAt |->
        [ steps  |-> <<"RLock", "readIntegerArrayBlock", "RUnlock", "return">>,
          result |-> "err" ],
      ReadUnsignedBlockAt |->
        [ steps  |-> <<"RLock", "readUnsignedBlock", "RUnlock", "return">>,
          result |-> "values, err" ],
      ReadUnsignedArrayBlockAt |->
        [ steps  |-> <<"RLock", "readUnsignedArrayBlock", "RUnlock", "return">>,
          result |-> "err" ],
      ReadStringBlockAt |->
        [ steps  |-> <<"RLock", "readStringBlock", "RUnlock", "return">>,
          result |-> "values, err" ],
      ReadStringArrayBlockAt |->
        [ steps  |-> <<"RLock", "readStringArrayBlock", "RUnlock", "return">>,
          result |-> "err" ],
      ReadBooleanBlockAt |->
        [ steps  |-> <<"RLock", "readBooleanBlock", "RUnlock", "return">>,
          result |-> "values, err" ],
      ReadBooleanArrayBlockAt |->
        [ steps  |-> <<"RLock", "readBooleanArrayBlock", "RUnlock", "return">>,
          result |-> "err" ] ]

\* The typed reads, in the order the caller of this model makes them.
Kinds ==
    <<"ReadFloatBlockAt", "ReadFloatArrayBlockAt", "ReadIntegerBlockAt",
      "ReadIntegerArrayBlockAt", "ReadUnsignedBlockAt", "ReadUnsignedArrayBlockAt",
      "ReadStringBlockAt", "ReadStringArrayBlockAt", "ReadBooleanBlockAt",
      "ReadBooleanArrayBlockAt">>

\* A caller about to make the typed read number k on the same input.
StartPath(p, k) ==
    [ p EXCEPT !.pc = "reader", !.k = k, !.rip = 1, !.code = <<>>, !.ip = 0,
               !.cur = "none", !.trace = <<>>, !.calls = <<>>,
               !.given = <<>>, !.decision = "none", !.decoder = "none",
               !.accRes = [v |-> "none", err |-> "none"] ]

\* The read of the current kind is over, with result res or by a panic;
\* the caller goes on to the next kind.
FinishPath(p, res) ==
    LET rec == [ kind |-> Kinds[p.k], decision |-> p.decision,
                 given |-> p.given, trace |-> p.trace, calls |-> p.calls,
                 decoder |-> p.decoder, accRes |-> p.accRes, res |-> res ]
        q == [p EXCEPT !.done = Append(@, rec)]
    IN  IF p.k < Len(Kinds) THEN StartPath(q, p.k + 1)
        ELSE [q EXCEPT !.pc = "end"]

\* The statement the TSMReader method, or the accessor method, is at.
ReaderStatement == ReaderMethods[Kinds[pt.k]].steps[pt.rip]
AccessorStatement == pt.code[pt.ip]

\* TSMReader.Read<Type>BlockAt: t.mu.RLock() / t.mu.RUnlock()
ReaderLockStep ==
    /\ pt.pc = "reader"
    /\ ReaderStatement \in {"RLock", "RUnlock"}
    /\ pt' = [pt EXCEPT !.trace = Append(@, <<"t.mu", ReaderStatement>>),
                        !.rip = @ + 1]
    /\ UNCHANGED <<isVars, rdVars, rpVars, drv, sf, rsp, wr, srv, nd>>

\* TSMReader.Read<Type>BlockAt: t.accessor.read<Type>Block(entry, vals)
ReaderCall ==
    /\ pt.pc = "reader"
    /\ ReaderStatement \in DOMAIN Accessors
    /\ pt' = [pt EXCEPT !.pc = "accessor", !.cur = ReaderStatement,
                        !.calls = Append(@, ReaderStatement),
                        !.code = Accessors[ReaderStatement].steps,
                        !.ip = 1]
    /\ UNCHANGED <<isVars, rdVars, rpVars, drv, sf, rsp, wr, srv, nd>>

\* mmapAccessor.read<Type>Block: m.incAccess(), m.mu.RLock(), m.mu.RUnlock()
AccessorLockStep ==
    /\ pt.pc = "accessor"
    /\ AccessorStatement \in {"incAccess", "RLock", "RUnlock"}
    /\ pt' = [pt EXCEPT !.trace = Append(@, <<"m", AccessorStatement>>),
                        !.ip = @ + 1]
    /\ UNCHANGED <<isVars, rdVars, rpVars, drv, sf, rsp, wr, srv, nd>>

\* mmapAccessor.read<Type>Block:
\*     if int64(len(m.b)) < entry.Offset+int64(entry.Size)
AccessorCheck ==
    /\ pt.pc = "accessor"
    /\ AccessorStatement = "check"
    /\ pt' = IF BoundsCheckFails(pt.len, pt.entry)
                THEN [pt EXCEPT !.trace = Append(@, <<"m", "check">>),
                                !.code = Accessors[pt.cur].short,
                                !.ip = 1]
                ELSE [pt EXCEPT !.trace = Append(@, <<"m", "check">>),
                                !.ip = @ + 1]
    /\ UNCHANGED <<isVars, rdVars, rpVars, drv, sf, rsp, wr, srv, nd>>

\* mmapAccessor.read<Type>Block:
\*     Decode<Type>Block(m.b[entry.Offset+4:entry.Offset+int64(entry.Size)], values)
\* on the mapped region (the file's bytes, or nothing once the file has been
\* closed).  The slice expression panics when its range is out of bounds;
\* the panic leaves both methods at once.
AccessorDecode ==
    /\ pt.pc = "accessor"
    /\ AccessorStatement = "decode"
    /\ LET m == Accessors[pt.cur]
           mapped == IF pt.len = 0 THEN <<>> ELSE FileBytes
           low == Wrap64(pt.entry.Offset + m.lowAdd)
           high == SliceHigh(pt.entry)
       IN  pt' = IF SliceInRange(pt.len, low, high)
                    THEN [pt EXCEPT !.trace = Append(@, <<"m", "decode">>),
                                    !.given = Slice(mapped, low, high),
                                    !.decision = "decode",
                                    !.decoder = m.decoder,
                                    !.ip = @ + 1]
                    ELSE FinishPath([pt EXCEPT !.decision = "panic"],
                                    [v |-> "none", err |-> "none"])
    /\ UNCHANGED <<isVars, rdVars, rpVars, drv, sf, rsp, wr, srv, nd>>

\* mmapAccessor.read<Type>Block: return nil, ErrTSMClosed / return a, nil /
\* return nil, err (ArrayBlock: return ErrTSMClosed / return err)
AccessorReturn ==
    /\ pt.pc = "accessor"
    /\ AccessorStatement \in {"return", "return ErrTSMClosed"}
    /\ LET m == Accessors[pt.cur]
           closed == AccessorStatement = "return ErrTSMClosed"
           vals == DecodeBlock(pt.given)
           err == IF closed THEN "ErrTSMClosed"
                  ELSE IF vals = "values" THEN "nil" ELSE vals
           v == IF m.result = "err" THEN "none"
                ELSE IF err = "nil" THEN vals ELSE "nil"
       IN  pt' = [pt EXCEPT
                     !.pc = "reader", !.rip = @ + 1,
                     !.decision = IF closed THEN "ErrTSMClosed" ELSE @,
                     !.accRes = [v |-> v, err |-> err]]
    /\ UNCHANGED <<isVars, rdVars, rpVars, drv, sf, rsp, wr, srv, nd>>

\* TSMReader.Read<Type>BlockAt: return v, err (ArrayBlockAt: return err)
ReaderReturn ==
    /\ pt.pc = "reader"
    /\ ReaderStatement = "return"
    /\ LET shape == ReaderMethods[Kinds[pt.k]].result
       IN  pt' = FinishPath(pt, [v |-> IF shape = "err" THEN "none" ELSE pt.accRes.v,
                                 err |-> pt.accRes.err])
    /\ UNCHANGED <<isVars, rdVars, rpVars, drv, sf, rsp, wr, srv, nd>>

\* One caller, one mapped length (the file's, or 0 after a close) and one
\* index entry; the ten typed reads are made on it one after another.
InitPaths ==
    /\ \E len \in {0, FileLen}, entry \in Entries :
           pt = StartPath([ pc |-> "reader", k |-> 1, len |-> len, entry |-> entry,
                            rip |-> 1, code |-> <<>>, ip |-> 0, cur |-> "none",
                            trace |-> <<>>, calls |-> <<>>, given |-> <<>>,
                            decision |-> "none", decoder |-> "none",
                            accRes |-> [v |-> "none", err |-> "none"],
                            done |-> <<>> ], 1)
    /\ ISIdle /\ RDIdle /\ RPIdle /\ XIdleBut("pt")

SpecPaths ==
    InitPaths /\ [][ReaderLockStep \/ ReaderCall \/ AccessorLockStep \/ AccessorCheck
                    \/ AccessorDecode \/ AccessorReturn \/ ReaderReturn]_vars

\* ------------------------------------------------ run, isRoot, processDatabase
\* Strings are sequences of characters.  The lines that can be typed here:
Lines == UNION {[1..n -> {"y", "Y", "n", " "}] : n \in 0..MaxAnswer}

\* fmt.Scanln(&answer): leading spaces are skipped and the token runs up to
\* the next space or the end of the line; with no token, or with more text
\* after it, Scanln reports an error, which run ignores, and answer keeps
\* what was stored ("" when there was no token).
Scanln(line) ==
    LET nonSpace == {j \in 1..Len(line) : line[j] # " "}
    IN  IF nonSpace = {} THEN <<>>
        ELSE LET first == CHOOSE j \in nonSpace : \A h \in nonSpace : j <= h
                 ends == {j \in first..Len(line) : j = Len(line) \/ line[j + 1] = " "}
                 last == CHOOSE j \in ends : \A h \in ends : j <= h
             IN  SubSeq(line, first, last)

\* strings.ToLower
ToLower(s) == [j \in 1..Len(s) |-> IF s[j] = "Y" THEN "y" ELSE s[j]]

\* strings.TrimSpace
TrimSpace(s) ==
    LET nonSpace == {j \in 1..Len(s) : s[j] # " "}
    IN  IF nonSpace = {} THEN <<>>
        ELSE SubSeq(s, CHOOSE j \in nonSpace : \A h \in nonSpace : j <= h,
                       CHOOSE j \in nonSpace : \A h \in nonSpace : j >= h)

\* A faulty variant: the prefix may occur anywhere in the string.
HasPrefixAnywhere(s, prefix) ==
    \E j \in 0..(Len(s) - Len(prefix)) : SubSeq(s, j + 1, j + Len(prefix)) = prefix

\* strings.HasPrefix
HasPrefix(s, prefix) ==
    Len(s) >= Len(prefix) /\ SubSeq(s, 1, Len(prefix)) = prefix

\* isRoot: user, _ := user.Current(); user != nil && user.Username == "root"
\* (user is "<nil>" when the lookup gave no user)
isRoot(user) == user # "<nil>" /\ user = "root"

\* run: !fi.IsDir(), or the database filter names another database
SkipDatabase(fi, opt) ==
    \/ ~fi.isDir
    \/ opt.database # "" /\ fi.name # opt.database

\* processDatabase: !fi.IsDir(), tsdb.SeriesFileDirectory, or the retention
\* filter names another retention policy
SkipRetentionPolicy(fi, opt) ==
    \/ ~fi.isDir
    \/ fi.name = "_series"
    \/ opt.retention # "" /\ fi.name # opt.retention

\* run returns the error of the given kind ("nil" for no error); at tells
\* which processRetentionPolicy call it came from, 0 for none.
RunReturns(d, kind, at) ==
    [d EXCEPT !.pc = "returned", !.ret = [kind |-> kind, at |-> at]]

\* run: if isRoot() { ... the warning and the question are printed }
RunIsRoot ==
    /\ drv.pc = "isRoot"
    /\ \E user \in {"<nil>", "root", "cnosdb"} :
           drv' = [drv EXCEPT !.user = user, !.asked = isRoot(user),
                              !.pc = IF isRoot(user) THEN "prompt" ELSE "readdir"]
    /\ UNCHANGED <<isVars, rdVars, rpVars, pt, sf, rsp, wr, srv, nd>>

\* run: fmt.Scanln(&answer); !strings.HasPrefix(strings.TrimSpace(
\*      strings.ToLower(answer)), "y") -> return fmt.Errorf("operation aborted")
RunPrompt ==
    /\ drv.pc = "prompt"
    /\ \E line \in Lines :
           LET answer == Scanln(line)
               d == [drv EXCEPT !.line = line]
           IN  drv' = IF ~HasPrefix(TrimSpace(ToLower(answer)), <<"y">>)
                         THEN RunReturns(d, "operation aborted", 0)
                         ELSE [d EXCEPT !.pc = "readdir"]
    /\ UNCHANGED <<isVars, rdVars, rpVars, pt, sf, rsp, wr, srv, nd>>

\* run: fis, err := ioutil.ReadDir(dataDir); if err != nil { return err }
RunReadDir ==
    /\ drv.pc = "readdir"
    /\ \/ drv' = RunReturns([drv EXCEPT !.readDirs = @ + 1], "ReadDir", 0)
       \/ \E n \in 0..MaxDbs :
              drv' = [drv EXCEPT !.readDirs = @ + 1, !.nDbs = n, !.di = 1,
                                 !.pc = "databases"]
    /\ UNCHANGED <<isVars, rdVars, rpVars, pt, sf, rsp, wr, srv, nd>>

\* run: for _, fi := range fis { ... opt.processDatabase(...) }; return nil
RunNextDatabase ==
    /\ drv.pc = "databases"
    /\ IF drv.di > drv.nDbs
          THEN drv' = RunReturns(drv, "nil", 0)
          ELSE \E fi \in [isDir : BOOLEAN, name : {"db1", "db2"}] :
                   drv' = IF SkipDatabase(fi, drv.opt)
                             THEN [drv EXCEPT !.di = @ + 1, !.skips = @ + 1]
                             ELSE [drv EXCEPT !.pc = "sfile.Open"]
    /\ UNCHANGED <<isVars, rdVars, rpVars, pt, sf, rsp, wr, srv, nd>>

\* processDatabase: if err := sfile.Open(); err != nil { return err };
\* defer sfile.Close(). run returns an error of processDatabase at once.
OpenSeriesFile ==
    /\ drv.pc = "sfile.Open"
    /\ \/ drv' = RunReturns([drv EXCEPT !.opened = @ + 1], "sfile.Open", 0)
       \/ drv' = [drv EXCEPT !.opened = @ + 1, !.pc = "db.readdir"]
    /\ UNCHANGED <<isVars, rdVars, rpVars, pt, sf, rsp, wr, srv, nd>>

\* processDatabase: fis, err := ioutil.ReadDir(dataDir)
DatabaseReadDir ==
    /\ drv.pc = "db.readdir"
    /\ \/ drv' = RunReturns([drv EXCEPT !.readDirs = @ + 1, !.closed = @ + 1],
                            "ReadDir", 0)
       \/ \E n \in 0..MaxRPs :
              drv' = [drv EXCEPT !.readDirs = @ + 1, !.nRps = n, !.ri = 1,
                                 !.pc = "policies"]
    /\ UNCHANGED <<isVars, rdVars, rpVars, pt, sf, rsp, wr, srv, nd>>

\* processDatabase: for _, fi := range fis { ... }; return nil (the deferred
\* sfile.Close runs, and run moves to its next entry)
NextRetentionPolicy ==
    /\ drv.pc = "policies"
    /\ IF drv.ri > drv.nRps
          THEN drv' = [drv EXCEPT !.closed = @ + 1, !.di = @ + 1,
                                  !.pc = "databases"]
          ELSE \E fi \in [isDir : BOOLEAN, name : {"rp1", "rp2", "_series"}] :
                   drv' = IF SkipRetentionPolicy(fi, drv.opt)
                             THEN [drv EXCEPT !.ri = @ + 1, !.skips = @ + 1]
                             ELSE [drv EXCEPT !.pc = "processRetentionPolicy"]
    /\ UNCHANGED <<isVars, rdVars, rpVars, pt, sf, rsp, wr, srv, nd>>

\* A faulty variant: an error of a retention policy is noted and the loop
\* goes on.
RetentionPolicyErrorSkipped ==
    /\ drv.pc = "processRetentionPolicy"
    /\ \E failed \in BOOLEAN :
           drv' = [drv EXCEPT !.log = Append(@, failed), !.ri = @ + 1,
                              !.pc = "policies"]
    /\ UNCHANGED <<isVars, rdVars, rpVars, pt, sf, rsp, wr, srv, nd>>

\* processDatabase: if err := o.processRetentionPolicy(...); err != nil
\* { return err }: the deferred sfile.Close runs and run returns the error.
RetentionPolicyReturns ==
    /\ drv.pc = "processRetentionPolicy"
    /\ \E failed \in BOOLEAN :
           LET d == [drv EXCEPT !.log = Append(@, failed)]
           IN  drv' = IF failed
                         THEN RunReturns([d EXCEPT !.closed = @ + 1],
                                         "processRetentionPolicy", Len(d.log))
                         ELSE [d EXCEPT !.ri = @ + 1, !.pc = "policies"]
    /\ UNCHANGED <<isVars, rdVars, rpVars, pt, sf, rsp, wr, srv, nd>>

\* run is entered with the filters of the command line (opt.databaseFilter,
\* opt.retentionFilter; "" when not given).
InitRun ==
    /\ \E opt \in [database : {"", "db1"}, retention : {"", "rp1"}] :
           drv = [ pc |-> "isRoot", opt |-> opt, user |-> "<nil>", asked |-> FALSE,
                   line |-> <<>>, nDbs |-> 0, di |-> 0, nRps |-> 0, ri |-> 0,
                   readDirs |-> 0, opened |-> 0, closed |-> 0, skips |-> 0,
                   log |-> <<>>, ret |-> [kind |-> "none", at |-> 0] ]
    /\ ISIdle /\ RDIdle /\ RPIdle /\ XIdleBut("drv")

SpecRun ==
    InitRun /\ [][RunIsRoot \/ RunPrompt \/ RunReadDir \/ RunNextDatabase
                  \/ OpenSeriesFile \/ DatabaseReadDir \/ NextRetentionPolicy
                  \/ RetentionPolicyReturns]_vars

\* ----------------------------------------------------------- Response.Error
\* The nil error.
NoErr == "nil"

\* Response: Err, and Results whose elements are nil pointers or results
\* with their own Err.
Responses ==
    [Err : {NoErr, "e1", "e2"},
     Results : UNION {[1..n -> [isNil : {TRUE}, Err : {NoErr}]
                                \union [isNil : {FALSE}, Err : {NoErr, "e1", "e2"}]]
                         : n \in 0..MaxResults}]

\* for _, rr := range r.Results { if rr != nil { return rr.Err } }; return nil
RECURSIVE RangeResults(_, _)
RangeResults(results, j) ==
    IF j > Len(results) THEN NoErr
    ELSE IF ~results[j].isNil THEN results[j].Err
    ELSE RangeResults(results, j + 1)

\* func (r *Response) Error() error
Error(r) == IF r.Err # NoErr THEN r.Err ELSE RangeResults(r.Results, 1)

\* A caller asks the response for its error.
CallError ==
    /\ rsp.pc = "call"
    /\ rsp' = [rsp EXCEPT !.pc = "returned", !.out = Error(rsp.r)]
    /\ UNCHANGED <<isVars, rdVars, rpVars, pt, drv, sf, wr, srv, nd>>

InitResponse ==
    /\ \E r \in Responses : rsp = [pc |-> "call", r |-> r, out |-> "none"]
    /\ ISIdle /\ RDIdle /\ RPIdle /\ XIdleBut("rsp")

SpecResponse == InitResponse /\ [][CallError]_vars

\* ----------------------------------------------------- WriteRequestToPoints
\* A sample: the class of its float64 value, and whether models.NewPoint
\* accepts the point made of it (it refuses, for one, a timestamp outside the
\* supported range and a series key over the maximum length).  A refused
\* sample matters only when its value is finite: the others never reach
\* NewPoint.
Samples ==
    [Value : {"finite", "NaN", "+Inf", "-Inf"}, accepted : {TRUE}]
        \union {[Value |-> "finite", accepted |-> FALSE]}

\* The samples of time series t, in order, in a list of samples each put
\* in a time series.
SeriesOf(placed, t) ==
    LET sel == SelectSeq(placed, LAMBDA x : x[2] = t)
    IN  [j \in 1..Len(sel) |-> sel[j][1]]

\* remote.WriteRequest, as far as the conversion reads it: MaxSeries time
\* series (some of them empty) that hold at most MaxSamples samples in all.
WriteRequests ==
    {[t \in 1..MaxSeries |-> SeriesOf(placed, t)] :
        placed \in UNION {[1..n -> Samples \X (1..MaxSeries)] : n \in 0..MaxSamples}}

\* math.IsNaN(v), math.IsInf(v, -1), math.IsInf(v, 1)
IsNaN(v) == v = "NaN"
IsInf(v, sign) ==
    IF sign < 0 THEN v = "-Inf" ELSE IF sign > 0 THEN v = "+Inf" ELSE v \in {"-Inf", "+Inf"}

\* An error value of the conversion: nil, the error of models.NewPoint, or
\* DroppedValuesError{nan: nan, inf: inf, ninf: ninf}
WriteError(kind, nan, inf, ninf) ==
    [kind |-> kind, nan |-> nan, inf |-> inf, ninf |-> ninf]

\* The loop over one time series' samples, from sample j on; acc holds
\* points (the point of sample j of time series t is <<t, j>>), the three
\* counters and failed (NewPoint returned an error).
RECURSIVE RangeSamples(_, _, _, _)
RangeSamples(acc, ts, t, j) ==
    IF j > Len(ts) \/ acc.failed THEN acc
    ELSE LET v == ts[j].Value
         IN  IF IsNaN(v)
                 THEN RangeSamples([acc EXCEPT !.nan = @ + 1], ts, t, j + 1)
             ELSE IF IsInf(v, -1)
                 THEN RangeSamples([acc EXCEPT !.ninf = @ + 1], ts, t, j + 1)
             ELSE IF IsInf(v, 1)
                 THEN RangeSamples([acc EXCEPT !.inf = @ + 1], ts, t, j + 1)
             ELSE IF ~ts[j].accepted
                 THEN [acc EXCEPT !.failed = TRUE]
             ELSE RangeSamples([acc EXCEPT !.points = Append(@, <<t, j>>)],
                               ts, t, j + 1)

\* The loop over the request's time series, from time series t on.
RECURSIVE RangeTimeseries(_, _, _)
RangeTimeseries(acc, req, t) ==
    IF t > Len(req) \/ acc.failed THEN acc
    ELSE RangeTimeseries(RangeSamples(acc, req[t], t, 1), req, t + 1)

\* A faulty variant: the points are not returned with a DroppedValuesError.
ReturnPointsDiscarded(acc) ==
    IF acc.nan + acc.inf + acc.ninf > 0
        THEN [points |-> <<>>, isNil |-> TRUE,
              err |-> WriteError("DroppedValuesError", acc.nan, acc.inf, acc.ninf)]
        ELSE [points |-> acc.points, isNil |-> FALSE,
              err |-> WriteError("nil", 0, 0, 0)]

\* if nan+inf+ninf > 0 { return points, DroppedValuesError{...} }
\* return points, nil
ReturnPoints(acc) ==
    IF acc.nan + acc.inf + acc.ninf > 0
        THEN [points |-> acc.points, isNil |-> FALSE,
              err |-> WriteError("DroppedValuesError", acc.nan, acc.inf, acc.ninf)]
        ELSE [points |-> acc.points, isNil |-> FALSE,
              err |-> WriteError("nil", 0, 0, 0)]

\* func WriteRequestToPoints(req *remote.WriteRequest) ([]models.Point, error)
WriteRequestToPoints(req) ==
    LET acc == RangeTimeseries([points |-> <<>>, nan |-> 0, inf |-> 0,
                                ninf |-> 0, failed |-> FALSE], req, 1)
    IN  IF acc.failed
            THEN [points |-> <<>>, isNil |-> TRUE,
                  err |-> WriteError("NewPoint", 0, 0, 0)]
            ELSE ReturnPoints(acc)

\* A caller converts its request.
CallWriteRequestToPoints ==
    /\ wr.pc = "call"
    /\ wr' = [wr EXCEPT !.pc = "returned", !.out = WriteRequestToPoints(wr.req)]
    /\ UNCHANGED <<isVars, rdVars, rpVars, pt, drv, sf, rsp, srv, nd>>

InitWrite ==
    /\ \E req \in WriteRequests :
           wr = [pc |-> "call", req |-> req,
                 out |-> [points |-> <<>>, isNil |-> TRUE,
                          err |-> WriteError("nil", 0, 0, 0)]]
    /\ ISIdle /\ RDIdle /\ RPIdle /\ XIdleBut("wr")

SpecWrite == InitWrite /\ [][CallWriteRequestToPoints]_vars

\* ------------------------------------------------- Server.Open, Server.Close
\* A field of the server by its name, or the k-th element of s.services
\* (name "service").
Comp(name, k) == [kind |-> name, k |-> k]

\* Open returns err: "nil" or the step that failed.
OpenReturns(s, err) == [s EXCEPT !.pc = "opened", !.openErr = err]

\* Open: s.initMetaStore()
InitMetaStore ==
    /\ srv.pc = "initMetaStore"
    /\ \/ srv' = OpenReturns(srv, "initMetaStore")
       \/ srv' = [srv EXCEPT !.set = @ \union {Comp("Node", 0)},
                             !.pc = "initTCPServer"]
    /\ UNCHANGED <<isVars, rdVars, rpVars, pt, drv, sf, rsp, wr, nd>>

\* Open: s.initTCPServer(); go s.startNodeServer()
InitTCPServer ==
    /\ srv.pc = "initTCPServer"
    /\ \/ srv' = OpenReturns(srv, "initTCPServer")
       \/ LET made == {Comp("tcpMux", 0), Comp("tcpListener", 0)}
          IN  srv' = [srv EXCEPT !.set = @ \union made, !.open = @ \union made,
                                 !.pc = "initMetaClient"]
    /\ UNCHANGED <<isVars, rdVars, rpVars, pt, drv, sf, rsp, wr, nd>>

\* Open: s.initMetaClient(): s.metaClient is assigned, then opened
InitMetaClient ==
    /\ srv.pc = "initMetaClient"
    /\ \/ srv' = OpenReturns([srv EXCEPT !.set = @ \union {Comp("metaClient", 0)}],
                             "initMetaClient")
       \/ srv' = [srv EXCEPT !.set = @ \union {Comp("metaClient", 0)},
                             !.open = @ \union {Comp("metaClient", 0)},
                             !.pc = "initTSDBStore"]
    /\ UNCHANGED <<isVars, rdVars, rpVars, pt, drv, sf, rsp, wr, nd>>

\* Open: s.initTSDBStore(): everything is constructed and assigned (the
\* points writer, the query executor's statement executor, the coordinator
\* service and the snapshotter service are handed s.tsdbStore); then the
\* store, the points writer, hinted handoff, the subscriber and the
\* registered services are opened in turn, and the first Open that fails
\* ends initTSDBStore and Open.  The query executor is usable once made.
InitTSDBStore ==
    /\ srv.pc = "initTSDBStore"
    /\ LET opens == <<Comp("tsdbStore", 0), Comp("pointsWriter", 0),
                      Comp("hintedHandoff", 0), Comp("subscriber", 0)>>
                        \o [k \in 1..srv.nServices |-> Comp("service", k)]
           s == [srv EXCEPT
                    !.set = @ \union
                        {Comp("monitor", 0), Comp("tsdbStore", 0),
                         Comp("shardWriter", 0), Comp("hintedHandoff", 0),
                         Comp("pointsWriter", 0), Comp("subscriber", 0),
                         Comp("queryExecutor", 0), Comp("coordinatorService", 0),
                         Comp("snapshotterService", 0)},
                    !.storeUsers =
                        {Comp("pointsWriter", 0), Comp("queryExecutor", 0),
                         Comp("coordinatorService", 0),
                         Comp("snapshotterService", 0)},
                    !.open = @ \union {Comp("queryExecutor", 0)}]
       IN  \/ \E f \in 1..Len(opens) :
                  srv' = OpenReturns(
                             [s EXCEPT !.open = @ \union {opens[j] : j \in 1..(f - 1)}],
                             "initTSDBStore")
           \/ srv' = [s EXCEPT !.open = @ \union {opens[j] : j \in 1..Len(opens)},
                               !.pc = "initHTTPServer"]
    /\ UNCHANGED <<isVars, rdVars, rpVars, pt, drv, sf, rsp, wr, nd>>

\* Open: s.initHTTPServer(): net.Listen, then the mux and its listener
InitHTTPServer ==
    /\ srv.pc = "initHTTPServer"
    /\ \/ srv' = OpenReturns(srv, "initHTTPServer")
       \/ LET made == {Comp("listener", 0), Comp("httpMux", 0),
                       Comp("httpListener", 0), Comp("httpHandler", 0)}
          IN  srv' = [srv EXCEPT !.set = @ \union made, !.open = @ \union made,
                                 !.pc = "openServices"]
    /\ UNCHANGED <<isVars, rdVars, rpVars, pt, drv, sf, rsp, wr, nd>>

\* Open: s.openServices(): the coordinator service, then the snapshotter
\* service; go s.startHTTPServer(); return nil
OpenServices ==
    /\ srv.pc = "openServices"
    /\ \/ srv' = OpenReturns(srv, "openServices")
       \/ srv' = OpenReturns(
                     [srv EXCEPT !.open = @ \union {Comp("coordinatorService", 0)}],
                     "openServices")
       \/ srv' = OpenReturns(
                     [srv EXCEPT !.open = @ \union {Comp("coordinatorService", 0),
                                                   Comp("snapshotterService", 0)}],
                     "nil")
    /\ UNCHANGED <<isVars, rdVars, rpVars, pt, drv, sf, rsp, wr, nd>>

\* x.Close() on a component: it is no longer open, and the call is noted.
CloseComp(s, c) == [s EXCEPT !.open = @ \ {c}, !.order = Append(@, c)]

\* A caller invokes Close, after Open returned or after an earlier Close.
ServerClose ==
    /\ srv.pc \in {"opened", "closed"}
    /\ srv.closes < MaxCloses
    /\ srv' = [srv EXCEPT !.pc = "close.services", !.closes = @ + 1, !.ci = 1]
    /\ UNCHANGED <<isVars, rdVars, rpVars, pt, drv, sf, rsp, wr, nd>>

\* Close: for _, service := range s.services { _ = service.Close() }
CloseService ==
    /\ srv.pc = "close.services"
    /\ srv' = IF srv.ci > srv.nServices
                 THEN [srv EXCEPT !.pc = "close.tested", !.ci = 1]
                 ELSE [CloseComp(srv, Comp("service", srv.ci)) EXCEPT !.ci = @ + 1]
    /\ UNCHANGED <<isVars, rdVars, rpVars, pt, drv, sf, rsp, wr, nd>>

\* Close: if s.<field> != nil { _ = s.<field>.Close() }, for the points
\* writer, the query executor, the TSDB store ("no more reads or writes at
\* this point") and the meta client, in this order
CloseNilTested ==
    /\ srv.pc = "close.tested"
    /\ LET fields == <<Comp("pointsWriter", 0), Comp("queryExecutor", 0),
                       Comp("tsdbStore", 0), Comp("metaClient", 0)>>
           c == fields[srv.ci]
           s == IF c \in srv.set THEN CloseComp(srv, c) ELSE srv
       IN  srv' = IF srv.ci < Len(fields)
                     THEN [s EXCEPT !.ci = @ + 1]
                     ELSE [s EXCEPT !.pc = "close.untested", !.ci = 1]
    /\ UNCHANGED <<isVars, rdVars, rpVars, pt, drv, sf, rsp, wr, nd>>

\* Close: _ = s.httpListener.Close(); s.httpMux.Close(), with no nil test:
\* a method call through a nil interface value panics
CloseUntested ==
    /\ srv.pc = "close.untested"
    /\ LET fields == <<Comp("httpListener", 0), Comp("httpMux", 0)>>
           c == fields[srv.ci]
       IN  srv' = IF c \notin srv.set
                     THEN [srv EXCEPT !.pc = "panicked"]
                  ELSE IF srv.ci < Len(fields)
                     THEN [CloseComp(srv, c) EXCEPT !.ci = @ + 1]
                  ELSE [CloseComp(srv, c) EXCEPT !.pc = "close.closing"]
    /\ UNCHANGED <<isVars, rdVars, rpVars, pt, drv, sf, rsp, wr, nd>>

\* Close: close(s.closing); closing a closed channel panics
CloseClosing ==
    /\ srv.pc = "close.closing"
    /\ srv' = IF srv.closing = "open"
                 THEN [srv EXCEPT !.closing = "closed", !.pc = "closed",
                                  !.order = Append(@, Comp("closing", 0))]
                 ELSE [srv EXCEPT !.pc = "panicked"]
    /\ UNCHANGED <<isVars, rdVars, rpVars, pt, drv, sf, rsp, wr, nd>>

\* NewServer; s.services holds the registered services (none is registered
\* in server.go itself).
InitServer ==
    /\ \E n \in 0..MaxServices :
           srv = [ pc |-> "initMetaStore", nServices |-> n, set |-> {},
                   open |-> {}, storeUsers |-> {}, openErr |-> "none",
                   closing |-> "open", closes |-> 0, ci |-> 0, order |-> <<>> ]
    /\ ISIdle /\ RDIdle /\ RPIdle /\ XIdleBut("srv")

SpecServer ==
    InitServer /\ [][InitMetaStore \/ InitTCPServer \/ InitMetaClient
                     \/ InitTSDBStore \/ InitHTTPServer \/ OpenServices
                     \/ ServerClose \/ CloseService \/ CloseNilTested
                     \/ CloseUntested \/ CloseClosing]_vars

\* ------------------------------- processDatabase: the shared series file
\* processDatabase returns after processRetentionPolicy returned (at once on
\* an error, after the loop otherwise): the deferred sfile.Close() runs.
DeferredSeriesFileClose ==
    /\ orch.pc = "returned"
    /\ sf.pc = "open"
    /\ sf' = [sf EXCEPT !.pc = "closed"]
    /\ UNCHANGED <<isVars, rdVars, rpVars, pt, drv, rsp, wr, srv, nd>>

\* processDatabase: sfile.Open() returned nil and defer sfile.Close() is
\* registered; processRetentionPolicy is called with sfile.
InitDB ==
    /\ RPInit /\ sf = [pc |-> "open"]
    /\ ISIdle /\ RDIdle /\ XIdleBut("sf")

SpecDB == InitDB /\ [][NextRP \/ DeferredSeriesFileClose]_vars

\* ------------------------------------ startNodeServer, joinCluster
\* const RequestClusterJoin = 0x01
RequestClusterJoin == 1

\* joinCluster(conn, peers), called on server s.  The meta servers named by
\* peers are those of one cluster (its name is the first peer), which holds
\* the IDs of its data nodes: DataNode(id) finds a node when the ID is one
\* of them, CreateDataNode adds the next free ID.  open and save are the
\* outcomes of metaClient.Open and s.Node.Save.  CreateDataNode is retried
\* every second until it succeeds; a call that never succeeds never returns.
joinCluster(s, peers, open, save) ==
    LET c == peers[1]
        called == [s EXCEPT !.calls = Append(@, [NewNode |-> s.NewNode, peers |-> peers])]
        id == CHOOSE k \in 1..(Cardinality(s.meta[c]) + 1) :
                  /\ k \notin s.meta[c]
                  /\ \A j \in 1..(k - 1) : j \in s.meta[c]
        created == [called EXCEPT !.meta[c] = @ \union {id},
                                  !.mine[c] = @ + 1,
                                  !.ID = id,
                                  !.Peers = peers]
    IN  IF ~open THEN called
        ELSE IF s.ID \in s.meta[c] THEN called
        ELSE IF ~save THEN created
        ELSE [created EXCEPT !.NewNode = FALSE,
                             !.disk = <<[ID |-> id, Peers |-> peers]>>,
                             !.savedAt = <<[ID |-> id, Peers |-> peers,
                                            mine |-> created.mine,
                                            calls |-> Len(created.calls)]>>]

\* One turn of the loop of startNodeServer: Accept, decode the request (a
\* request that does not decode is left as it is, Type 0 when nothing was
\* read), and the switch on its type.  An Accept error is logged and the
\* loop goes on, but after "connection closed" the code falls through with
\* a nil conn, and reading from it panics.
HandleRequest ==
    /\ nd.pc = "serving"
    /\ nd.n < MaxRequests
    /\ \E accept \in {"conn", "error", "closed"},
          type \in 0..2, peers \in {<<>>, <<"m1">>, <<"m2">>},
          open \in BOOLEAN, save \in BOOLEAN :
         LET s == [nd EXCEPT !.n = @ + 1]
         IN  nd' = IF accept = "error" THEN [s EXCEPT !.last = "error"]
                   ELSE IF accept = "closed"
                      THEN [s EXCEPT !.pc = "panicked", !.last = "error"]
                   ELSE IF type # RequestClusterJoin
                      THEN [s EXCEPT !.last = "unknown"]
                   ELSE IF ~s.NewNode \/ Len(peers) = 0
                      THEN [s EXCEPT !.last = "closed"]
                   ELSE [joinCluster(s, peers, open, save) EXCEPT !.last = "joined"]
    /\ UNCHANGED <<isVars, rdVars, rpVars, pt, drv, sf, rsp, wr, srv>>

\* The process ends and the server is started again: initMetaStore loads the
\* node file, and a node without one is a new node.
Restart ==
    /\ nd.pc \in {"serving", "panicked"}
    /\ nd.restarts < MaxRestarts
    /\ nd' = [nd EXCEPT !.pc = "serving",
                        !.restarts = @ + 1,
                        !.last = "none",
                        !.NewNode = (nd.disk = <<>>),
                        !.ID = IF nd.disk = <<>> THEN 0 ELSE nd.disk[1].ID,
                        !.Peers = IF nd.disk = <<>> THEN <<>> ELSE nd.disk[1].Peers]
    /\ UNCHANGED <<isVars, rdVars, rpVars, pt, drv, sf, rsp, wr, srv>>

\* Open has run initMetaStore and initTCPServer and started the node server,
\* on a node without a node file; each cluster has no data node yet, or one.
InitNode ==
    /\ \E meta \in [{"m1", "m2"} -> {{}, {1}}] :
           nd = [ pc |-> "serving", NewNode |-> TRUE, ID |-> 0, Peers |-> <<>>,
                  disk |-> <<>>, meta |-> meta,
                  mine |-> [c \in {"m1", "m2"} |-> 0],
                  calls |-> <<>>, savedAt |-> <<>>, last |-> "none",
                  n |-> 0, restarts |-> 0 ]
    /\ ISIdle /\ RDIdle /\ RPIdle /\ XIdleBut("nd")

SpecNode == InitNode /\ [][HandleRequest \/ Restart]_vars

\* ------------------------------------------------------------------ claims

Inserts == {"InsertTSM", "InsertCache"}

\* C1: <shard>/index comes into existence only through the rename that ends
\* a run, after every insert, Compact, Wait and an error-free Close; it holds
\* exactly the series the run enumerated; and a run that started without it
\* and returned an error, panicked or was interrupted leaves it absent.
C1_PublishedOnlyByFinalRename ==
    /\ (indexPath.exists /\ indexPath.by # 0) =>
         LET L == indexPath.log
             n == Len(L)
         IN /\ n >= 4
            /\ L[n] = "Rename"
            /\ L[n - 1] = "Close"
            /\ L[n - 2] = "Wait"
            /\ L[n - 3] = "Compact"
            /\ \A k \in 1..n : L[k] \in Inserts => k < n - 3
            /\ \A k \in 1..n : L[k] # "CloseFailed"
    /\ (indexPath.exists /\ indexPath.by = run) =>
         /\ pc = "done"
         /\ ret = Nil
         /\ ~idxOpen
         /\ filesLeft = 0
         /\ indexPath.series = enumerated
    /\ (~Running /\ ~indexAtStart /\ (pc # "done" \/ ret # Nil)) => ~indexPath.exists

\* A second run, after a run that was interrupted or failed while the partial
\* index was in place, has published an index of two series or more.
C1_Witness ==
    /\ run = 2
    /\ indexPath.exists
    /\ indexPath.by = 2
    /\ Cardinality(indexPath.series) >= 2
    /\ pc = "done"

Checked(r) == rd[r].pc \in {"checked", "decoding", "returned", "done", "panicked"}
Finished(r) == rd[r].pc \in {"done", "panicked"}

\* While a decoder runs, the bytes it was given are bytes of the region as it
\* is still mapped: close has not emptied the region in between.
DecodersReadMappedBytes ==
    \A r \in Readers :
        rd[r].pc = "decoding" =>
            /\ Len(b) = rd[r].len
            /\ rd[r].given = Slice(b, SliceLow(rd[r].entry), SliceHigh(rd[r].entry))

\* C2: every read, concurrent with other reads and one close, either decodes
\* bytes of the still-mapped region or returns ErrTSMClosed, and nothing else.
C2_TwoOutcomes ==
    /\ DecodersReadMappedBytes
    /\ \A r \in Readers :
           (Checked(r) /\ rd[r].pc # "returned") =>
               \/ rd[r].pc = "done" /\ rd[r].res = "ErrTSMClosed" /\ ~rd[r].called
               \/ rd[r].called /\ rd[r].len > 0 /\ rd[r].pc \in {"decoding", "done"}
               \/ rd[r].pc = "checked" /\ rd[r].len > 0
                    /\ SliceInRange(rd[r].len, SliceLow(rd[r].entry),
                                    SliceHigh(rd[r].entry))

\* C3: a read whose bounds check saw the closed (empty) region returns
\* ErrTSMClosed, for every index entry: no panic, no decoder call, no values.
C3_ClosedReadsFail ==
    \A r \in Readers :
        (Checked(r) /\ rd[r].len = 0) =>
            /\ rd[r].pc \in {"returned", "done"}
            /\ rd[r].res = "ErrTSMClosed"
            /\ ~rd[r].called

\* C4: a read returns ErrTSMClosed exactly when len(m.b) < Offset + Size at
\* its check, then without calling the decoder or reading a byte; the decoder
\* is called only after a check that passed.
C4_CheckBeforeDecode ==
    \A r \in Readers :
        Checked(r) =>
            LET fails == rd[r].len < EntryEnd(rd[r].entry)
            IN /\ fails <=> rd[r].res = "ErrTSMClosed"
               /\ fails => (~rd[r].called /\ rd[r].given = <<>>
                            /\ rd[r].pc \in {"returned", "done"})
               /\ rd[r].called => ~fails

\* One read has returned ErrTSMClosed for a block ending past the region and
\* another has had its block decoded.
C4_Witness ==
    \E r1, r2 \in Readers :
        /\ rd[r1].pc = "done" /\ rd[r1].res = "ErrTSMClosed" /\ rd[r1].len > 0
        /\ rd[r2].pc = "done" /\ rd[r2].res = "values"

\* C5: a read that has finished, on any exit path, holds neither the
\* TSMReader read lock nor the accessor read lock.
C5_FinishedHoldsNoLock ==
    \A r \in Readers :
        Finished(r) => (r \notin tmu.readers /\ r \notin mmu.readers)

NoWriter(mu) == mu.writer = "none"

\* C6: while no close holds or awaits either exclusive lock, a read can take
\* the TSMReader lock and the accessor lock, whoever else holds them shared.
C6_ReadsNeverBlockReads ==
    (NoWriter(tmu) /\ NoWriter(mmu)) =>
        \A r \in Readers :
            /\ rd[r].pc = "idle" => ENABLED ReadBlockAt(r)
            /\ rd[r].pc = "counted" => ENABLED AccessorRLock(r)

\* Two reads are inside the accessor at once, both holding both read locks.
C6_Witness ==
    \E r1, r2 \in Readers :
        /\ r1 # r2
        /\ rd[r1].pc = "decoding"
        /\ rd[r2].pc = "decoding"
        /\ {r1, r2} \subseteq tmu.readers
        /\ {r1, r2} \subseteq mmu.readers

Shards == 1..Len(shards)
Spawned == DOMAIN wk
Holding(w) == wk[w].pc \in {"claimed", "indexing", "send"}

\* C7: a worker works on an index of the list that no other worker has
\* claimed, and IndexShard is invoked at most once per shard, whatever the
\* interleaving of the atomic increments; a worker has one shard at a time.
C7_NoShardClaimedTwice ==
    /\ \A w \in Spawned : Holding(w) => wk[w].i + 1 \in Shards
    /\ \A s \in Shards : calls[s] <= 1
    /\ \A w1, w2 \in Spawned :
           (w1 # w2 /\ Holding(w1) /\ Holding(w2)) => wk[w1].i # wk[w2].i
    /\ \A w \in Spawned :
           Holding(w) => calls[wk[w].i + 1] = (IF wk[w].pc = "claimed" THEN 0 ELSE 1)

\* Two workers run IndexShard at once, on different shards, while the rest of
\* the list is still to be claimed.
C7_Witness ==
    \E w1, w2 \in Spawned :
        /\ w1 # w2
        /\ wk[w1].pc = "indexing"
        /\ wk[w2].pc = "indexing"
        /\ maxi < Len(shards)

FirstError(seq) ==
    IF \E k \in 1..Len(seq) : seq[k].isErr
       THEN seq[CHOOSE k \in 1..Len(seq) :
                    seq[k].isErr /\ \A j \in 1..(k - 1) : ~seq[j].isErr]
       ELSE NilError

C9_DrainsOnePerShard ==
    orch.pc = "returned" => Len(received) = Len(shards)

\* C9, amended: the orchestrator receives at most len(shards) values; exactly
\* len(shards) when it returns nil; and an error is the last value it
\* receives, the one it returns, the rest staying in the channel.
C9_DrainsUpToFirstError ==
    /\ Len(received) <= Len(shards)
    /\ \A k \in 1..Len(received) :
           received[k].isErr =>
               /\ k = Len(received)
               /\ orch.pc = "returned"
               /\ orch.ret = received[k]
    /\ orch.pc = "returned" =>
           /\ orch.ret = NilError => Len(received) = Len(shards)
           /\ orch.ret # NilError => received[Len(received)] = orch.ret

\* The orchestrator has returned an error with results of other shards left
\* in the channel, never to be received.
C9_Witness ==
    /\ orch.pc = "returned"
    /\ orch.ret.isErr
    /\ Len(received) < Len(shards)
    /\ errC # <<>>

AllInvoked == \A s \in Shards : calls[s] = 1
FailureSeen ==
    \/ \E w \in Spawned : wk[w].res.isErr
    \/ orch.pc = "returned" /\ orch.ret.isErr
NoSendBlocks == \A w \in Spawned : wk[w].pc = "send" => ENABLED Send(w)

\* C10: after a shard has failed, also after the orchestrator has returned
\* the error, the workers go on until every shard has been passed to
\* IndexShard, and no worker ever waits to send its result.
C10_FailureDoesNotCancel ==
    /\ []NoSendBlocks
    /\ FailureSeen ~> AllInvoked

\* Every shard has been passed to IndexShard, some of them only after the
\* orchestrator had returned the error of a failed shard.
C10_Witness ==
    /\ orch.pc = "returned"
    /\ orch.ret.isErr
    /\ callsAtReturn < Len(shards)
    /\ AllInvoked
    /\ \A w \in Spawned : wk[w].pc = "exit"


\* --------------------------------------------------------- C11 .. C20
StepsOf(L) == {L[k] : k \in 1..Len(L)}
Skipped == pc = "done" /\ steps = <<"Detect">>

C11_Untouched ==
    indexAtStart =>
        /\ pc \in {"start", "done", "interrupted"}
        /\ pc = "done" => (ret = Nil /\ steps = <<"Detect">>)
        /\ indexPath = prev.index
        /\ tmpPath = prev.tmp
        /\ ~idxOpen /\ ~deferred /\ closes = 0
        /\ StepsOf(steps) \subseteq {"Detect"}
        /\ batches = <<>> /\ enumerated = {} /\ src = <<>>
        /\ filesLeft = 0 /\ skipped = 0 /\ walResult = "none"

\* C11: a run that starts with <shard>/index in place returns nil and leaves
\* the shard untouched: .index neither removed nor created, no index opened,
\* no insert, no TSM or WAL file read, no rename, in any step it takes.
C11_SkipLeavesShardUntouched ==
    /\ []C11_Untouched
    /\ [][indexAtStart => (indexPath' = indexPath /\ tmpPath' = tmpPath)]_vars

\* A run has skipped with the index in place and a partial index of an
\* earlier run still at <shard>/.index.
C11_Witness ==
    /\ indexAtStart
    /\ Skipped
    /\ ret = Nil
    /\ tmpPath.exists
    /\ StaleSeries \in tmpPath.series


\* C12: a run of IndexShard after a run on the same shard that returned nil
\* returns nil, makes no insert call and leaves <shard>/index exactly as the
\* first run left it.
C12_SecondRunIsNoOp ==
    (run >= 2 /\ prev.pc = "done" /\ prev.ret = Nil /\ pc = "done") =>
        /\ ret = Nil
        /\ StepsOf(steps) \cap Inserts = {}
        /\ indexPath = prev.index


Before(L, a, c) == \E j, k \in 1..Len(L) : j < k /\ L[j] = a /\ L[k] = c

\* C13: the index a run opens at <shard>/.index starts empty: what an earlier
\* run left there was removed before, in the same run, so the temp path only
\* ever holds series this run inserted; a failed removal returns the error
\* with no index opened.
C13_TempStartsEmpty ==
    /\ pc = "collect" => tmpPath = EmptyDir(run)
    /\ deferred =>
         /\ Before(steps, "Clean", "Open")
         /\ tmpPath.exists =>
              (tmpPath.by = run /\ tmpPath.series \subseteq enumerated)
         /\ ~tmpPath.exists => steps[Len(steps)] = "Rename"
    /\ ret = "err:RemoveAll" =>
         /\ pc = "done"
         /\ steps = <<"Detect", "Clean">>
         /\ ~deferred /\ ~idxOpen /\ closes = 0
         /\ tmpPath = prev.tmp

\* A second run has just opened its empty index where the first run, which
\* did not finish, had left series inserted.
C13_Witness ==
    /\ run = 2
    /\ prev.pc \in {"interrupted", "panicked", "done"}
    /\ prev.ret # Nil
    /\ prev.tmp.by = 1
    /\ prev.tmp.series # {}
    /\ pc = "collect"
    /\ tmpPath = EmptyDir(2)


PipelineOrder ==
    <<"Detect", "Clean", "Open", "IndexTSM", "InsertTSM", "LoadWAL", "InsertCache",
      "Compact", "Wait", "Close", "Rename">>
Rank(s) ==
    LET t == IF s = "CloseFailed" THEN "Close" ELSE s
    IN CHOOSE k \in 1..Len(PipelineOrder) : PipelineOrder[k] = t

SeriesKeys(s) == [k \in 1..Len(s) |-> SeriesAndFieldFromCompositeKey(s[k])[1]]
RECURSIVE ConcatKeys(_)
ConcatKeys(bs) == IF bs = <<>> THEN <<>> ELSE bs[1].keys \o ConcatKeys(Tail(bs))
Occurrences(seq, x) == Cardinality({k \in 1..Len(seq) : seq[k] = x})
InLoop == pc \in {"tsmloop", "cacheloop"}
\* The loop over src has run to its end and its remaining series are flushed.
LoopDone ==
    \/ pc \in {"tsm", "wal", "load", "compact", "wait", "close", "rename"}
    \/ pc = "done" /\ ret # "err:CreateSeries"
CeilDiv(k, d) == (k + d - 1) \div d

\* C15: with batch size b >= 1, a key sequence of k keys is inserted in
\* ceil(k/b) calls when none fails: each call has between 1 and b keys, each
\* call but the last exactly b, and every key is in exactly one call.
C15_BatchBoundaries ==
    batchSize >= 1 =>
        /\ \A j \in 1..Len(batches) :
               /\ Len(batches[j].keys) >= 1
               /\ Len(batches[j].keys) <= batchSize
               /\ (j < Len(batches) \/ InLoop) => Len(batches[j].keys) = batchSize
        /\ Len(keysBatch) < batchSize
        /\ LoopDone =>
               /\ i = Len(src)
               /\ Len(batches) = CeilDiv(Len(src), batchSize)
               /\ Len(ConcatKeys(batches)) = Len(src)
               /\ \A k \in 1..Len(src) :
                      Occurrences(ConcatKeys(batches), SeriesKeys(src)[k])
                          = Occurrences(SeriesKeys(src), SeriesKeys(src)[k])

\* Three keys have gone into the index in two calls of two and one, from a
\* TSM file and again from the cache.
C15_Witness ==
    /\ batchSize = 2
    /\ Len(src) = 3
    /\ LoopDone
    /\ Len(batches) = 2
    /\ Len(batches[2].keys) = 1
    /\ batches[2].from = "cache"
    /\ "InsertTSM" \in StepsOf(steps)


FromTSM == batches = <<>> \/ batches[1].from = "tsm"

\* C16: the key arrays of the successive insert calls of IndexTSMFile, put
\* end to end, are the series keys of KeyAt(0), KeyAt(1), ... in that order:
\* at every point of the loop those of the keys passed so far, at its end
\* those of all KeyCount keys.
C16_EnumerationOrder ==
    /\ pc = "tsmloop" =>
           /\ i <= Len(src)
           /\ ConcatKeys(batches) \o keysBatch = SubSeq(SeriesKeys(src), 1, i)
    /\ (LoopDone /\ FromTSM) => ConcatKeys(batches) = SeriesKeys(src)

\* A file of three keys of two series has been indexed in two calls.
C16_Witness ==
    /\ pc = "tsm"
    /\ Len(src) = 3
    /\ Len(batches) = 2
    /\ batches[1].from = "tsm"
    /\ ConcatKeys(batches) = SeriesKeys(src)
    /\ Cardinality(StepsOf(SeriesKeys(src))) = 2


ParallelArrays(bt) ==
    /\ Len(bt.names) = Len(bt.keys)
    /\ Len(bt.tags) = Len(bt.keys)
    /\ \A k \in 1..Len(bt.keys) :
           /\ bt.names[k] = ParseKeyBytes(bt.keys[k])[1]
           /\ bt.tags[k] = ParseKeyBytes(bt.keys[k])[2]

\* C17: in every insert call, from IndexTSMFile or from the cache loop, the
\* key, name and tag-set arrays have one length and position k of each is
\* the same series, also after a flush has truncated the slices and reset
\* the tag index, and in the last, partial batch.
C17_ParallelArrays ==
    /\ \A j \in 1..Len(batches) : ParallelArrays(batches[j])
    /\ InLoop => Len(namesBatch) = Len(keysBatch)
    /\ pc = "tsmloop" => ti = Len(keysBatch)
    /\ pc = "cacheloop" => Len(tagsBatch) = Len(keysBatch)

\* After a full batch was flushed and the tag buffer reused, IndexTSMFile has
\* made a second call with the one series that remained, of another series
\* than the one whose tags were in that slot before.
C17_Witness ==
    /\ batchSize = 2
    /\ Len(batches) = 2
    /\ batches[1].from = "tsm"
    /\ Len(batches[1].keys) = 2
    /\ Len(batches[2].keys) = 1
    /\ batches[2].tags # <<batches[1].tags[1]>>
    /\ ParallelArrays(batches[2])


\* C18: a TSM file that cannot be opened or parsed is skipped and never ends
\* the run: no run returns the error of such a file, the files after it and
\* the WAL are still gone through, and a run that returns nil after skipping
\* files has published the index.
C18_BadFileSkipped ==
    /\ ret # "err:OpenTSM"
    /\ skipped > 0 => (deferred /\ ret \notin {"err:ReadDir", "err:Open", "err:RemoveAll"})
    /\ (skipped > 0 /\ pc = "done" /\ ret = Nil) =>
           (indexPath.by = run /\ "LoadWAL" \in StepsOf(steps))


NoWAL == walResult \in {"empty", "notexist"}

\* C19: when collectWALFiles reports that the WAL path is empty or does not
\* exist, the run loads no cache and inserts no cache series, goes on to
\* Compact, Wait, Close and the rename, and returns nil when Close and the
\* rename succeed; any other error of collectWALFiles is returned at once.
C19_MissingWALIsNoData ==
    /\ NoWAL =>
         /\ pc \in {"compact", "wait", "close", "rename", "done", "interrupted"}
         /\ "InsertCache" \notin StepsOf(steps)
         /\ FromTSM
         /\ ret \in {NoRet, Nil, "err:Close", "err:Rename"}
         /\ pc = "done" => {"Compact", "Wait"} \subseteq StepsOf(steps)
         /\ (pc = "done" /\ ret = Nil) =>
                (indexPath.by = run /\ indexPath.series = enumerated)
    /\ walResult = "error" =>
         /\ pc = "done"
         /\ ret = "err:ReadDirWAL"
         /\ steps[Len(steps)] = "LoadWAL"
         /\ ~indexPath.exists
    /\ ret = "err:ReadDirWAL" => walResult = "error"

\* A shard with no WAL directory has had its index published, built from its
\* TSM files alone.
C19_Witness ==
    /\ walResult = "notexist"
    /\ pc = "done"
    /\ ret = Nil
    /\ indexPath.by = run
    /\ indexPath.series # {}


Errors ==
    {"err:RemoveAll", "err:Open", "err:ReadDir", "err:CreateSeries", "err:LoadWAL",
     "err:Close", "err:Rename"}
\* The steps a run can have reached last when it returns the given error.
FailedAt(e) ==
    CASE e = "err:RemoveAll" -> {"Clean"}
      [] e = "err:Open" -> {"Open"}
      [] e = "err:ReadDir" -> {"IndexTSM"}
      [] e = "err:CreateSeries" -> {"IndexTSM", "InsertTSM", "LoadWAL", "InsertCache"}
      [] e = "err:LoadWAL" -> {"LoadWAL"}
      [] e = "err:Close" -> {"CloseFailed"}
      [] e = "err:Rename" -> {"Rename"}
      [] OTHER -> {}

C20_Aborted ==
    /\ ret \in Errors =>
         /\ pc = "done"
         /\ steps[Len(steps)] \in FailedAt(ret)
         /\ ~indexPath.exists
         /\ "Compact" \in StepsOf(steps) => ret \in {"err:Close", "err:Rename"}
    /\ ret = "err:LoadWAL" => ("InsertCache" \notin StepsOf(steps) /\ FromTSM)
    /\ "CloseFailed" \in StepsOf(steps) => ret = "err:Close"
    /\ (pc = "done" /\ ret = Nil /\ ~Skipped) => indexPath.by = run

\* C20: an error of RemoveAll, Open, the TSM listing, a batch insert, the WAL
\* load, Close or the rename is returned by IndexShard, which has then done
\* nothing past the step that failed and does nothing more: no insert,
\* Compact or rename follows, a failed WAL load inserts no cache series, and
\* a run returns nil only when none of them failed.
C20_ErrorsAbort ==
    /\ []C20_Aborted
    /\ [][pc = "done" =>
            (indexPath' = indexPath /\ tmpPath' = tmpPath /\ steps' \in {steps, <<>>})]_vars

\* A run that had inserted the series of its TSM files has returned the error
\* of the WAL load, leaving them in the temp path.
C20_Witness ==
    /\ ret = "err:LoadWAL"
    /\ pc = "done"
    /\ "InsertTSM" \in StepsOf(steps)
    /\ tmpPath.series # {}
    /\ ~indexPath.exists


\* --------------------------------------------------------- C21 .. C30
Least(S) == CHOOSE x \in S : \A y \in S : x <= y

Counted(r) == rd[r].pc \notin {"idle", "tlocked"}

\* C21: each typed read has added exactly one to the access counter by the
\* time it asks for the accessor lock, so before its bounds check and before
\* any byte is read, and the count stays when the read ends in ErrTSMClosed.
C21_CountedBeforeRead ==
    /\ accessCount = Cardinality({r \in Readers : Counted(r)})
    /\ \A r \in Readers :
           (r \in mmu.readers \/ Checked(r) \/ rd[r].called \/ rd[r].res # "none")
               => Counted(r)

\* Every caller has finished its read, one of them with ErrTSMClosed, and
\* each has been counted.
C21_Witness ==
    /\ \A r \in Readers : rd[r].pc = "done"
    /\ \E r \in Readers : rd[r].res = "ErrTSMClosed"
    /\ accessCount = NumReaders


\* The bytes of the file from position from (counted from 0) up to, not
\* including, position to.
FileRange(from, to) == [j \in 1..(to - from) |-> FileBytes[from + j]]

\* C22 as stated: the bytes a typed read decodes for an index entry are the
\* file's bytes from entry.Offset up to entry.Offset + entry.Size.
C22_DecodesFromOffset ==
    \A r \in Readers :
        rd[r].called =>
            /\ Len(rd[r].given) = rd[r].entry.Size
            /\ rd[r].given = FileRange(rd[r].entry.Offset,
                                       rd[r].entry.Offset + rd[r].entry.Size)

\* C22: the bytes a typed read decodes for an index entry are the file's
\* bytes from entry.Offset + 4 up to entry.Offset + entry.Size: the first
\* four bytes of the entry's range are not handed to the decoder.
C22_DecodesAfterFourBytes ==
    \A r \in Readers :
        rd[r].called =>
            /\ Len(rd[r].given) = rd[r].entry.Size - 4
            /\ rd[r].given = FileRange(rd[r].entry.Offset + 4,
                                       rd[r].entry.Offset + rd[r].entry.Size)

\* A read of the entry that covers the whole file is decoding the bytes
\* after the first four.
C22_Witness ==
    \E r \in Readers :
        /\ rd[r].pc = "decoding"
        /\ rd[r].entry = IndexEntry(0, FileLen)
        /\ rd[r].given = <<5, 6>>


\* C29 as stated: whenever a read's bounds check passes, the range it is
\* about to slice lies inside the mapped region it saw and is not inverted:
\* 0 <= Offset + 4 <= Offset + Size <= len.
C29_SliceAlwaysInRange ==
    \A r \in Readers :
        rd[r].pc = "checked" =>
            SliceInRange(rd[r].len, SliceLow(rd[r].entry), SliceHigh(rd[r].entry))


\* The accessor method that belongs to each kind of typed read.
OwnAccessor ==
    [ ReadFloatBlockAt |-> "readFloatBlock",
      ReadFloatArrayBlockAt |-> "readFloatArrayBlock",
      ReadIntegerBlockAt |-> "readIntegerBlock",
      ReadIntegerArrayBlockAt |-> "readIntegerArrayBlock",
      ReadUnsignedBlockAt |-> "readUnsignedBlock",
      ReadUnsignedArrayBlockAt |-> "readUnsignedArrayBlock",
      ReadStringBlockAt |-> "readStringBlock",
      ReadStringArrayBlockAt |-> "readStringArrayBlock",
      ReadBooleanBlockAt |-> "readBooleanBlock",
      ReadBooleanArrayBlockAt |-> "readBooleanArrayBlock" ]

\* C23: on the same mapped region and index entry, the typed reads of all
\* ten kinds take the same decision (ErrTSMClosed, decode, or the panic of
\* C29), hand the same bytes to their decoder and perform the same lock and
\* counter steps in the same order; each TSMReader method calls the accessor
\* method of its own kind exactly once and returns what that call returned.
C23_PathsIdentical ==
    \A n \in 1..Len(pt.done) :
        LET d == pt.done[n]
            f == pt.done[1]
        IN  /\ d.decision = f.decision
            /\ d.given = f.given
            /\ d.trace = f.trace
            /\ d.decision # "panic" =>
                   /\ d.calls = <<OwnAccessor[d.kind]>>
                   /\ d.res.err = d.accRes.err
                   /\ d.res.v = d.accRes.v

\* All ten kinds have been read on an entry that is decoded, and on one that
\* is refused with ErrTSMClosed.
C23_Witness ==
    /\ pt.pc = "end"
    /\ Len(pt.done) = 10
    /\ pt.done[10].decision = "decode"
    /\ pt.done[10].given = <<5, 6>>
    /\ pt.done[10].res.err = "nil"


\* The typed line, after its leading spaces, does not begin with y or Y.
NotYes(line) ==
    \A j \in 1..Len(line) :
        (\A h \in 1..(j - 1) : line[h] = " ") => line[j] \notin {"y", "Y"}

\* C24: the confirmation is asked exactly when the invoking user is root;
\* when root's answer does not begin with y or Y, run returns "operation
\* aborted" having read no directory and opened no series file, so that no
\* database, retention policy or shard has been touched.
C24_RootMustConfirm ==
    /\ drv.pc # "isRoot" => (drv.asked <=> drv.user = "root")
    /\ (drv.pc \notin {"isRoot", "prompt"} /\ drv.user = "root" /\ NotYes(drv.line)) =>
           /\ drv.pc = "returned"
           /\ drv.ret.kind = "operation aborted"
           /\ drv.readDirs = 0
           /\ drv.opened = 0
           /\ drv.log = <<>>
    /\ drv.ret.kind = "operation aborted" => drv.user = "root"

\* Root has answered " n" and run has returned "operation aborted"
C24_Witness ==
    /\ drv.user = "root"
    /\ drv.line = <<" ", "n">>
    /\ drv.pc = "returned"
    /\ drv.ret.kind = "operation aborted"


\* C25: retention policies are processed one after another, database by
\* database; the first one that returns an error ends the run at once, with
\* that error as run's result and no later retention policy or database
\* started; run returns nil only if every retention policy returned nil.
C25_FirstErrorReturned ==
    /\ \A j \in 1..Len(drv.log) :
           drv.log[j] =>
               /\ j = Len(drv.log)
               /\ drv.pc = "returned"
               /\ drv.ret = [kind |-> "processRetentionPolicy", at |-> j]
    /\ drv.ret.kind = "processRetentionPolicy" =>
           /\ drv.ret.at = Len(drv.log)
           /\ drv.log[drv.ret.at]
           /\ drv.closed = drv.opened
    /\ drv.ret.kind = "nil" =>
           /\ drv.pc = "returned"
           /\ \A j \in 1..Len(drv.log) : ~drv.log[j]
           /\ drv.di > drv.nDbs

\* A retention policy of the second database failed after one that
\* succeeded, and run returned its error with entries left unvisited.
C25_Witness ==
    /\ drv.pc = "returned"
    /\ drv.ret = [kind |-> "processRetentionPolicy", at |-> 2]
    /\ drv.log = <<FALSE, TRUE>>
    /\ drv.di = 2 /\ drv.ri < drv.nRps


\* The results that carry an error.
Failing(results) == {j \in 1..Len(results) : ~results[j].isNil /\ results[j].Err # NoErr}

\* C26 as stated: when Response.Err is nil and some result has an error,
\* Error returns the error of the first such result, whatever the results
\* before it are; it returns nil only when no result has an error.
C26_FirstErrorOfAnyResult ==
    (rsp.pc = "returned" /\ rsp.r.Err = NoErr) =>
        IF Failing(rsp.r.Results) = {}
            THEN rsp.out = NoErr
            ELSE rsp.out = rsp.r.Results[Least(Failing(rsp.r.Results))].Err


\* The samples of a request, as positions <<time series, sample>>.
Positions(req) == {p \in (1..Len(req)) \X (1..MaxSamples) : p[2] <= Len(req[p[1]])}
ValueAt(req, p) == req[p[1]][p[2]].Value
WithValue(req, v) == {p \in Positions(req) : ValueAt(req, p) = v}
Unsupported(req) == Positions(req) \ WithValue(req, "finite")
Refused(req) == {p \in WithValue(req, "finite") : ~req[p[1]][p[2]].accepted}

\* p comes before q in request order.
Precedes(p, q) == p[1] < q[1] \/ (p[1] = q[1] /\ p[2] < q[2])

\* The points are exactly the finite samples, in request order.
PointsAreFiniteSamples(req, points) ==
    /\ {points[n] : n \in 1..Len(points)} = WithValue(req, "finite")
    /\ Len(points) = Cardinality(WithValue(req, "finite"))
    /\ \A m, n \in 1..Len(points) : m < n => Precedes(points[m], points[n])

\* What C27 promises of a call that has returned.
DroppedValuesContract(req, out) ==
    /\ out.err.kind = "DroppedValuesError" <=> Unsupported(req) # {}
    /\ out.err.nan = Cardinality(WithValue(req, "NaN"))
    /\ out.err.inf = Cardinality(WithValue(req, "+Inf"))
    /\ out.err.ninf = Cardinality(WithValue(req, "-Inf"))
    /\ ~out.isNil
    /\ PointsAreFiniteSamples(req, out.points)
    /\ Len(out.points) + out.err.nan + out.err.inf + out.err.ninf
           = Cardinality(Positions(req))

ClosedAt(c) ==
    IF \E j \in 1..Len(srv.order) : srv.order[j] = c
        THEN Least({j \in 1..Len(srv.order) : srv.order[j] = c})
        ELSE 0

\* C28 as stated, for the first Close after an Open that returned nil: by
\* the time the store's Close is called, every registered service, the
\* points writer and the query executor have been closed and no component
\* that was handed the store is still open; the meta client and the HTTP
\* listener are closed after the store, and the closing channel last.
C28_StoreClosedAfterItsUsers ==
    (srv.openErr = "nil" /\ srv.closes = 1 /\ ClosedAt(Comp("tsdbStore", 0)) > 0) =>
        /\ \A k \in 1..srv.nServices :
               ClosedAt(Comp("service", k)) \in 1..(ClosedAt(Comp("tsdbStore", 0)) - 1)
        /\ ClosedAt(Comp("pointsWriter", 0)) \in 1..(ClosedAt(Comp("tsdbStore", 0)) - 1)
        /\ ClosedAt(Comp("queryExecutor", 0)) \in 1..(ClosedAt(Comp("tsdbStore", 0)) - 1)
        /\ srv.storeUsers \intersect srv.open = {}
        /\ \A c \in {Comp("metaClient", 0), Comp("httpListener", 0)} :
               ClosedAt(c) > 0 => ClosedAt(c) > ClosedAt(Comp("tsdbStore", 0))
        /\ srv.pc = "closed" =>
               /\ ClosedAt(Comp("metaClient", 0)) > 0
               /\ ClosedAt(Comp("httpListener", 0)) > 0
               /\ ClosedAt(Comp("closing", 0)) = Len(srv.order)


\* Worker w is in IndexShard with the series file, is about to call it, or
\* will still claim a shard.
UsesSeriesFile(w) ==
    \/ wk[w].pc \in {"claimed", "indexing"}
    \/ wk[w].pc \in {"claim", "send"} /\ maxi < Len(shards)

\* C30 as stated: once processDatabase's deferred sfile.Close has run, no
\* worker is executing IndexShard with that series file or will start one.
C30_NoUseAfterClose ==
    sf.pc = "closed" => \A w \in Spawned : ~UsesSeriesFile(w)


\* --------------------------------------------------------- C31 .. C36
AllExited == Len(wk) = concurrency /\ \A w \in Spawned : wk[w].pc = "exit"

\* A worker holds an index inside the list while it works on a shard, and has
\* left exactly when the index it drew is at or past the end of the list.
StopsAtEnd ==
    \A w \in Spawned :
        /\ wk[w].pc \in {"claimed", "indexing", "send"} => wk[w].i < Len(shards)
        /\ wk[w].pc = "exit" => wk[w].i >= Len(shards)

\* C31: with concurrency >= 1 and IndexShard calls that return,
\* processRetentionPolicy eventually returns and every worker eventually
\* exits; a worker stops at the first index it draws that is >= len(shards),
\* and in the end the cursor has been incremented len(shards) + concurrency
\* times.
C31_Terminates ==
    /\ []StopsAtEnd
    /\ [](maxi <= Len(shards) + concurrency \/ concurrency < 1)
    /\ (concurrency >= 1) =>
           <>[](/\ orch.pc = "returned"
                /\ AllExited
                /\ maxi = Len(shards) + concurrency)

\* Two workers have shared two shards or more, the orchestrator has returned
\* and both workers have left.
C31_Witness ==
    /\ concurrency >= 2
    /\ Len(shards) >= 2
    /\ orch.pc = "returned"
    /\ AllExited
    /\ maxi = Len(shards) + concurrency

\* C32: with concurrency <= 0 and at least one shard, no worker is started,
\* no shard is processed, nothing is ever sent, and the orchestrator never
\* returns: it stays in the first receive of the drain loop.
C32_NoWorkersNoReturn ==
    (concurrency <= 0 /\ Len(shards) >= 1) =>
        /\ wk = <<>>
        /\ Invocations = 0
        /\ maxi = 0
        /\ errC = <<>>
        /\ received = <<>>
        /\ orch.pc \in {"spawn", "drain"}
        /\ orch.pc = "drain" => orch.i = 0 /\ ~ENABLED Receive /\ ~ENABLED ReturnNil

\* The orchestrator waits in the drain loop of a run with a negative
\* concurrency and shards to process.
C32_Witness ==
    /\ concurrency < 0
    /\ Len(shards) >= 1
    /\ orch.pc = "drain"
    /\ ~ENABLED NextRP


\* C33: a run of IndexShard that opened the index closes it exactly once, and
\* that close comes before the rename, after which nothing is done to the
\* index; a run that skipped neither opens nor closes the index.
C33_ClosedOnceBeforeRename ==
    /\ (pc \in {"done", "panicked"} /\ deferred) => closes = 1
    /\ "Rename" \in StepsOf(steps) => closes = 1
    /\ Skipped => ~deferred /\ ~idxOpen /\ closes = 0 /\ "Open" \notin StepsOf(steps)


\* The key arrays of the insert calls that batching by b makes of a key
\* sequence: full batches of b and then what remains; one batch of all the
\* keys when nothing ever fills a batch (b = 0).
RECURSIVE Chunk(_, _)
Chunk(keys, size) ==
    IF keys = <<>> THEN <<>>
    ELSE IF size = 0 \/ Len(keys) <= size THEN <<keys>>
    ELSE <<SubSeq(keys, 1, size)>> \o Chunk(SubSeq(keys, size + 1, Len(keys)), size)

\* C34: for one key sequence and any batch size b >= 0, the loop of
\* IndexTSMFile and the cache loop of IndexShard make the same insert calls,
\* with the same contents, and neither fails unless the index returns an
\* error.
C34_LoopsEquivalent ==
    /\ pc # "panicked"
    /\ LoopDone =>
           /\ [j \in 1..Len(batches) |-> batches[j].keys]
                  = Chunk(SeriesKeys(src), batchSize)
           /\ \A j \in 1..Len(batches) : ParallelArrays(batches[j])

\* With a batch size of one or more the two loops do agree.
LoopsEquivalentForPositiveBatchSize == batchSize >= 1 => C34_LoopsEquivalent


\* C36: Server.Close runs to its end without a panic in every state Open can
\* leave behind, also when Open returned an error at one of its steps, and
\* also when Close is called a second time.
C36_CloseNeverFails == srv.pc # "panicked"


\* What Save has put on disk stays as it is: joinCluster is not called again,
\* no data node is created, and Node.ID and Node.Peers keep their values.
StableOnceSaved ==
    nd.savedAt # <<>> =>
        /\ ~nd.NewNode
        /\ nd.ID = nd.savedAt[1].ID
        /\ nd.Peers = nd.savedAt[1].Peers
        /\ nd.mine = nd.savedAt[1].mine
        /\ Len(nd.calls) = nd.savedAt[1].calls

\* joinCluster is called only while NewNode is true and with peers.
JoinGuard ==
    \A k \in 1..Len(nd.calls) :
        nd.calls[k].NewNode /\ Len(nd.calls[k].peers) >= 1

\* The two parts of the claim that describe the guard do hold.
JoinGuardAndStable == JoinGuard /\ StableOnceSaved

\* C35: a data node joins the cluster at most once: joinCluster is called
\* only while NewNode is true and the request has at least one peer, and
\* once it has created the data node and saved the node, NewNode is false
\* and no later join request creates a data node or changes Node.ID or
\* Node.Peers.
C35_JoinsAtMostOnce ==
    /\ JoinGuard
    /\ StableOnceSaved
    /\ \A c \in DOMAIN nd.mine : nd.mine[c] <= 1
====
